---- MODULE Spec2Model ----
(***************************************************************************)
(* Live match engine of the Sports Arena backend (src/main.py): the        *)
(* persisted match and team rows (src/models.py), the request handlers     *)
(* that score cricket, kabaddi and volleyball matches, and the WebSocket   *)
(* ConnectionManager that fans events out to the subscribers of a match.   *)
(*                                                                         *)
(* Every `async def` handler runs on the one event loop and contains no    *)
(* await between its query and its db.commit(), so query + mutation +      *)
(* commit is one step.  The only suspension points are the                 *)
(* `await connection.send_json(...)` calls inside                          *)
(* ConnectionManager.broadcast: a handler that has committed stays in      *)
(* flight as a broadcast task until its fan-out loop ends, and only then   *)
(* returns its response.                                                   *)
(***************************************************************************)
EXTENDS Integers, Sequences, FiniteSets, TLC

VARIABLES
    db,                  \* matches table: match id -> row (models.Match)
    teams,               \* teams table: team id -> row (models.Team)
    commits,             \* number of handler transactions committed so far
    active_connections,  \* ConnectionManager.active_connections: match id -> list of sockets
    ws,                  \* per WebSocket: connection state and the match of its URL
    tasks,               \* handlers suspended inside ConnectionManager.broadcast
    sendq,               \* per WebSocket: send_json calls awaiting completion, oldest first
    inbox,               \* per WebSocket: messages the client has received, in order
    resp                 \* the response most recently returned to a caller

vars == <<db, teams, commits, active_connections, ws, tasks, sendq, inbox, resp>>

hubVars == <<active_connections, ws, tasks, sendq, inbox>>

-----------------------------------------------------------------------------
(* Bounds of the exploration *)

MaxCommitsLife == 3
MaxCommitsStore == 4
MaxCommitsHub == 2
MaxCommitsConc == 4
MaxBalls == 8
MaxCommitsInnings == 7
MaxCommitsKabaddi == 3
MaxCommitsRules == 3
MaxCommitsVolleyball == 3
MaxCommitsFail == 3
MaxCommitsSport == 3
MaxCommitsTwo == 2
NumSockets == 3

-----------------------------------------------------------------------------
(* Identifiers and input alphabets *)

MatchIds == {1, 2}          \* ids a request may name; only some of them exist
TeamIds == {1, 2, 3}        \* ids a request may name; a match has two of them
Sockets == 1..NumSockets
Sports == {"cricket", "kabaddi", "volleyball"}
NoTeam == 0                 \* Python None in a team-id column
NoTarget == -1              \* Python None in Match.target
ExtraTypes == {"None", "WD", "NB", "B", "LB"}
KabaddiActions == {"raid", "tackle", "super_tackle", "bonus", "self_out", "all_out"}
VolleyballActions == {"point", "undo", "set_won", "toggle_serve"}
TossChoices == {"bat", "bowl", "raid", "defend", "serve"}

-----------------------------------------------------------------------------
(* Rows *)

NoResult == [winner |-> NoTeam, how |-> "None", a |-> 0, b |-> 0]

NewTeam(sport) ==
    [sport |-> sport, wins |-> 0, losses |-> 0, matches_played |-> 0, points |-> 0,
     total_runs_scored |-> 0, total_wickets_taken |-> 0,
     total_raid_points |-> 0, total_tackle_points |-> 0, total_sets_won |-> 0]

\* The row create_match inserts; columns it does not set take the defaults
\* of models.Match.  Overs are held in tenths: 1.3 overs is 13.
NewMatch(sport, t1, t2, ttp) ==
    [sport |-> sport, team1_id |-> t1, team2_id |-> t2,
     status |-> "UPCOMING", result |-> NoResult,
     toss_winner_id |-> NoTeam, toss_choice |-> "None",
     total_overs |-> 20, batting_team_id |-> t1, bowling_team_id |-> t2,
     total_runs |-> 0, wickets |-> 0, overs |-> 0,
     current_innings |-> 1, target |-> NoTarget,
     innings2_runs |-> 0, innings2_wickets |-> 0, innings2_overs |-> 0,
     ball_history |-> <<>>,
     half_duration_minutes |-> 20, current_half |-> 1,
     team1_raid_points |-> 0, team1_tackle_points |-> 0,
     team1_all_outs |-> 0, team1_bonus_points |-> 0,
     team2_raid_points |-> 0, team2_tackle_points |-> 0,
     team2_all_outs |-> 0, team2_bonus_points |-> 0,
     ttp_points |-> ttp, total_sets |-> 3, current_set |-> 1, serve_team_id |-> t1,
     team1_sets |-> 0, team1_current_points |-> 0, team1_set_points |-> <<>>,
     team2_sets |-> 0, team2_current_points |-> 0, team2_set_points |-> <<>>,
     point_history |-> <<>>]

NoBody == [none |-> TRUE]

Response(op, m, code, detail, body) ==
    [op |-> op, match_id |-> m, code |-> code, detail |-> detail, body |-> body]

NoResponse == Response("None", 0, 0, "None", NoBody)

-----------------------------------------------------------------------------
(* Float arithmetic on overs, on the tenths representation *)

\* int(current_overs)
IntPart(ov) == ov \div 10

\* int(round((current_overs - int(current_overs)) * 10)): the rounding makes
\* the tenths digit exact for every value k.d with d in 0..5.
RoundedTenths(ov) == ov % 10

\* Values k.d (in tenths) below 10 overs for which the IEEE-754 double
\* (k.d % 1) * 10 falls just below d, so that int() truncates it to d - 1.
TruncatesLow == {12, 14, 23, 24, 33, 34, 41, 43, 51, 53, 61, 63, 71, 73, 81, 82, 91, 92}

\* int((current_overs % 1) * 10)
TruncatedTenths(ov) == IF ov \in TruncatesLow THEN (ov % 10) - 1 ELSE ov % 10

\* int(current_overs * 6) + int((current_overs % 1) * 10) + 1
BallIndex(ov) == ((ov * 6) \div 10) + TruncatedTenths(ov) + 1

\* NextOvers without the roll-over: plain decimal arithmetic on k.d.
NextOversDecimal(ov) == ov + 1

\* The overs value after one more legal ball.
NextOvers(ov) ==
    LET balls == RoundedTenths(ov) + 1
    IN  IF balls = 6 THEN (IntPart(ov) + 1) * 10 ELSE IntPart(ov) * 10 + balls

-----------------------------------------------------------------------------
(* Cricket *)

\* IsExtraDelivery that forgets the no-ball.
IsExtraDeliveryWideOnly(extra_type) == extra_type = "WD"

\* IsExtraDelivery that forgets the wide.
IsExtraDeliveryNoBallOnly(extra_type) == extra_type = "NB"

IsExtraDelivery(extra_type) == extra_type \in {"WD", "NB"}

CricketApply(match, run, is_wicket, extra_type) ==
    LET first == match.current_innings = 1
        current_runs == IF first THEN match.total_runs ELSE match.innings2_runs
        current_wickets == IF first THEN match.wickets ELSE match.innings2_wickets
        current_overs == IF first THEN match.overs ELSE match.innings2_overs
        scored == IF IsExtraDelivery(extra_type) THEN 1 + run ELSE run
        ball_entry == [ball |-> BallIndex(current_overs), runs |-> run,
                       wicket |-> is_wicket, extra_type |-> extra_type,
                       innings |-> match.current_innings, total_runs |-> scored]
        new_runs == current_runs + scored
        new_overs == IF IsExtraDelivery(extra_type) THEN current_overs
                     ELSE NextOvers(current_overs)
        new_wickets == IF is_wicket THEN current_wickets + 1 ELSE current_wickets
    IN  [match EXCEPT
            !.total_runs = IF first THEN new_runs ELSE @,
            !.wickets = IF first THEN new_wickets ELSE @,
            !.overs = IF first THEN new_overs ELSE @,
            !.innings2_runs = IF first THEN @ ELSE new_runs,
            !.innings2_wickets = IF first THEN @ ELSE new_wickets,
            !.innings2_overs = IF first THEN @ ELSE new_overs,
            !.ball_history = Append(@, ball_entry)]

CurrentRuns(match) ==
    IF match.current_innings = 1 THEN match.total_runs ELSE match.innings2_runs

CurrentWickets(match) ==
    IF match.current_innings = 1 THEN match.wickets ELSE match.innings2_wickets

CurrentOvers(match) ==
    IF match.current_innings = 1 THEN match.overs ELSE match.innings2_overs

\* EndInningsApply that sets the target to the first-innings runs, without
\* the extra run.
EndInningsApplyRunsOnly(match) ==
    [match EXCEPT !.target = match.total_runs,
                  !.current_innings = 2,
                  !.batting_team_id = match.bowling_team_id,
                  !.bowling_team_id = match.batting_team_id]

\* EndInningsApply that swaps the sides with two assignments in a row: the
\* second reads the value the first has just written.
EndInningsApplySequentialSwap(match) ==
    [match EXCEPT !.target = match.total_runs + 1,
                  !.current_innings = 2,
                  !.batting_team_id = match.bowling_team_id,
                  !.bowling_team_id = match.bowling_team_id]

EndInningsApply(match) ==
    [match EXCEPT !.target = match.total_runs + 1,
                  !.current_innings = 2,
                  !.batting_team_id = match.bowling_team_id,
                  !.bowling_team_id = match.batting_team_id]

-----------------------------------------------------------------------------
(* Toss *)

TossApply(match, winner_team_id, choice) ==
    LET other_team == IF winner_team_id = match.team1_id THEN match.team2_id
                      ELSE match.team1_id
        tossed == [match EXCEPT !.toss_winner_id = winner_team_id,
                                !.toss_choice = choice]
    IN  IF match.sport = "cricket" THEN
            IF choice = "bat"
            THEN [tossed EXCEPT !.batting_team_id = winner_team_id,
                                !.bowling_team_id = other_team]
            ELSE [tossed EXCEPT !.batting_team_id = other_team,
                                !.bowling_team_id = winner_team_id]
        ELSE IF match.sport = "kabaddi" THEN
            IF choice = "raid"
            THEN [tossed EXCEPT !.batting_team_id = winner_team_id]
            ELSE [tossed EXCEPT !.batting_team_id = other_team]
        ELSE IF match.sport = "volleyball" THEN
            [tossed EXCEPT !.serve_team_id = winner_team_id]
        ELSE tossed

-----------------------------------------------------------------------------
(* Kabaddi *)

\* KabaddiTotal1 that counts an all-out once instead of twice.
KabaddiTotal1SingleAllOut(match) ==
    match.team1_raid_points + match.team1_tackle_points
        + match.team1_all_outs + match.team1_bonus_points

KabaddiTotal1(match) ==
    match.team1_raid_points + match.team1_tackle_points
        + (match.team1_all_outs * 2) + match.team1_bonus_points

KabaddiTotal2(match) ==
    match.team2_raid_points + match.team2_tackle_points
        + (match.team2_all_outs * 2) + match.team2_bonus_points

\* KabaddiApply that credits a self_out to the acting team's own raid points.
KabaddiApplySelfOutOwn(match, team_id, action, points) ==
    LET is_team1 == team_id = match.team1_id
    IN  IF action = "raid" THEN
            IF is_team1 THEN [match EXCEPT !.team1_raid_points = @ + points]
            ELSE [match EXCEPT !.team2_raid_points = @ + points]
        ELSE IF action = "tackle" THEN
            IF is_team1 THEN [match EXCEPT !.team1_tackle_points = @ + 1]
            ELSE [match EXCEPT !.team2_tackle_points = @ + 1]
        ELSE IF action = "super_tackle" THEN
            IF is_team1 THEN [match EXCEPT !.team1_tackle_points = @ + 2]
            ELSE [match EXCEPT !.team2_tackle_points = @ + 2]
        ELSE IF action = "bonus" THEN
            IF is_team1 THEN [match EXCEPT !.team1_bonus_points = @ + 1]
            ELSE [match EXCEPT !.team2_bonus_points = @ + 1]
        ELSE IF action = "self_out" THEN
            IF is_team1 THEN [match EXCEPT !.team1_raid_points = @ + 1]
            ELSE [match EXCEPT !.team2_raid_points = @ + 1]
        ELSE IF action = "all_out" THEN
            IF is_team1 THEN [match EXCEPT !.team1_all_outs = @ + 1]
            ELSE [match EXCEPT !.team2_all_outs = @ + 1]
        ELSE match

KabaddiApply(match, team_id, action, points) ==
    LET is_team1 == team_id = match.team1_id
    IN  IF action = "raid" THEN
            IF is_team1 THEN [match EXCEPT !.team1_raid_points = @ + points]
            ELSE [match EXCEPT !.team2_raid_points = @ + points]
        ELSE IF action = "tackle" THEN
            IF is_team1 THEN [match EXCEPT !.team1_tackle_points = @ + 1]
            ELSE [match EXCEPT !.team2_tackle_points = @ + 1]
        ELSE IF action = "super_tackle" THEN
            IF is_team1 THEN [match EXCEPT !.team1_tackle_points = @ + 2]
            ELSE [match EXCEPT !.team2_tackle_points = @ + 2]
        ELSE IF action = "bonus" THEN
            IF is_team1 THEN [match EXCEPT !.team1_bonus_points = @ + 1]
            ELSE [match EXCEPT !.team2_bonus_points = @ + 1]
        ELSE IF action = "self_out" THEN
            IF is_team1 THEN [match EXCEPT !.team2_raid_points = @ + 1]
            ELSE [match EXCEPT !.team1_raid_points = @ + 1]
        ELSE IF action = "all_out" THEN
            IF is_team1 THEN [match EXCEPT !.team1_all_outs = @ + 1]
            ELSE [match EXCEPT !.team2_all_outs = @ + 1]
        ELSE match

-----------------------------------------------------------------------------
(* Volleyball *)

Max0(n) == IF n > 0 THEN n ELSE 0

\* ButLast that drops the oldest entry instead of the newest (pop(0)).
ButFirst(s) == SubSeq(s, 2, Len(s))

ButLast(s) == SubSeq(s, 1, Len(s) - 1)

\* VolleyballApply whose set_won forgets to clear the point history.
VolleyballApplyKeepHistory(match, team_id, action) ==
    LET is_team1 == team_id = match.team1_id
        history == match.point_history
    IN  IF action = "point" THEN
            LET entry == [team |-> IF is_team1 THEN 1 ELSE 2, action |-> "point"]
                scored == IF is_team1
                          THEN [match EXCEPT !.team1_current_points = @ + 1]
                          ELSE [match EXCEPT !.team2_current_points = @ + 1]
            IN  [scored EXCEPT !.point_history = Append(history, entry)]
        ELSE IF action = "undo" THEN
            IF history # <<>> THEN
                LET last == history[Len(history)]
                    undone == IF last.team = 1
                              THEN [match EXCEPT !.team1_current_points = Max0(@ - 1)]
                              ELSE [match EXCEPT !.team2_current_points = Max0(@ - 1)]
                IN  [undone EXCEPT !.point_history = ButLast(history)]
            ELSE match
        ELSE IF action = "toggle_serve" THEN
            IF match.serve_team_id = match.team1_id
            THEN [match EXCEPT !.serve_team_id = match.team2_id]
            ELSE [match EXCEPT !.serve_team_id = match.team1_id]
        ELSE IF action = "set_won" THEN
            [match EXCEPT
                !.team1_set_points = Append(@, match.team1_current_points),
                !.team2_set_points = Append(@, match.team2_current_points),
                !.team1_sets = IF is_team1 THEN @ + 1 ELSE @,
                !.team2_sets = IF is_team1 THEN @ ELSE @ + 1,
                !.team1_current_points = 0,
                !.team2_current_points = 0,
                !.current_set = @ + 1]
        ELSE match

\* VolleyballApply whose set_won resets the current points before it records
\* them, so that it records 0 for both teams.
VolleyballApplyResetFirst(match, team_id, action) ==
    LET is_team1 == team_id = match.team1_id
        history == match.point_history
    IN  IF action = "point" THEN
            LET entry == [team |-> IF is_team1 THEN 1 ELSE 2, action |-> "point"]
                scored == IF is_team1
                          THEN [match EXCEPT !.team1_current_points = @ + 1]
                          ELSE [match EXCEPT !.team2_current_points = @ + 1]
            IN  [scored EXCEPT !.point_history = Append(history, entry)]
        ELSE IF action = "undo" THEN
            IF history # <<>> THEN
                LET last == history[Len(history)]
                    undone == IF last.team = 1
                              THEN [match EXCEPT !.team1_current_points = Max0(@ - 1)]
                              ELSE [match EXCEPT !.team2_current_points = Max0(@ - 1)]
                IN  [undone EXCEPT !.point_history = ButLast(history)]
            ELSE match
        ELSE IF action = "toggle_serve" THEN
            IF match.serve_team_id = match.team1_id
            THEN [match EXCEPT !.serve_team_id = match.team2_id]
            ELSE [match EXCEPT !.serve_team_id = match.team1_id]
        ELSE IF action = "set_won" THEN
            [match EXCEPT
                !.team1_set_points = Append(@, 0),
                !.team2_set_points = Append(@, 0),
                !.team1_sets = IF is_team1 THEN @ + 1 ELSE @,
                !.team2_sets = IF is_team1 THEN @ ELSE @ + 1,
                !.team1_current_points = 0,
                !.team2_current_points = 0,
                !.current_set = @ + 1,
                !.point_history = <<>>]
        ELSE match

\* VolleyballApply whose undo takes the point from the team the request names
\* instead of the team the popped entry recorded.
VolleyballApplyUndoRequester(match, team_id, action) ==
    LET is_team1 == team_id = match.team1_id
        history == match.point_history
    IN  IF action = "point" THEN
            LET entry == [team |-> IF is_team1 THEN 1 ELSE 2, action |-> "point"]
                scored == IF is_team1
                          THEN [match EXCEPT !.team1_current_points = @ + 1]
                          ELSE [match EXCEPT !.team2_current_points = @ + 1]
            IN  [scored EXCEPT !.point_history = Append(history, entry)]
        ELSE IF action = "undo" THEN
            IF history # <<>> THEN
                LET last == history[Len(history)]
                    undone == IF is_team1
                              THEN [match EXCEPT !.team1_current_points = Max0(@ - 1)]
                              ELSE [match EXCEPT !.team2_current_points = Max0(@ - 1)]
                IN  [undone EXCEPT !.point_history = ButLast(history)]
            ELSE match
        ELSE IF action = "toggle_serve" THEN
            IF match.serve_team_id = match.team1_id
            THEN [match EXCEPT !.serve_team_id = match.team2_id]
            ELSE [match EXCEPT !.serve_team_id = match.team1_id]
        ELSE IF action = "set_won" THEN
            [match EXCEPT
                !.team1_set_points = Append(@, match.team1_current_points),
                !.team2_set_points = Append(@, match.team2_current_points),
                !.team1_sets = IF is_team1 THEN @ + 1 ELSE @,
                !.team2_sets = IF is_team1 THEN @ ELSE @ + 1,
                !.team1_current_points = 0,
                !.team2_current_points = 0,
                !.current_set = @ + 1,
                !.point_history = <<>>]
        ELSE match

\* VolleyballApply whose point records the team id of the request instead of
\* the side that was credited.
VolleyballApplyRecordsRequester(match, team_id, action) ==
    LET is_team1 == team_id = match.team1_id
        history == match.point_history
    IN  IF action = "point" THEN
            LET entry == [team |-> team_id, action |-> "point"]
                scored == IF is_team1
                          THEN [match EXCEPT !.team1_current_points = @ + 1]
                          ELSE [match EXCEPT !.team2_current_points = @ + 1]
            IN  [scored EXCEPT !.point_history = Append(history, entry)]
        ELSE IF action = "undo" THEN
            IF history # <<>> THEN
                LET last == history[Len(history)]
                    undone == IF last.team = 1
                              THEN [match EXCEPT !.team1_current_points = Max0(@ - 1)]
                              ELSE [match EXCEPT !.team2_current_points = Max0(@ - 1)]
                IN  [undone EXCEPT !.point_history = ButLast(history)]
            ELSE match
        ELSE IF action = "toggle_serve" THEN
            IF match.serve_team_id = match.team1_id
            THEN [match EXCEPT !.serve_team_id = match.team2_id]
            ELSE [match EXCEPT !.serve_team_id = match.team1_id]
        ELSE IF action = "set_won" THEN
            [match EXCEPT
                !.team1_set_points = Append(@, match.team1_current_points),
                !.team2_set_points = Append(@, match.team2_current_points),
                !.team1_sets = IF is_team1 THEN @ + 1 ELSE @,
                !.team2_sets = IF is_team1 THEN @ ELSE @ + 1,
                !.team1_current_points = 0,
                !.team2_current_points = 0,
                !.current_set = @ + 1,
                !.point_history = <<>>]
        ELSE match

\* VolleyballApply whose toggle_serve gives the serve to the team the request
\* names.
VolleyballApplyServeToRequester(match, team_id, action) ==
    LET is_team1 == team_id = match.team1_id
        history == match.point_history
    IN  IF action = "point" THEN
            LET entry == [team |-> IF is_team1 THEN 1 ELSE 2, action |-> "point"]
                scored == IF is_team1
                          THEN [match EXCEPT !.team1_current_points = @ + 1]
                          ELSE [match EXCEPT !.team2_current_points = @ + 1]
            IN  [scored EXCEPT !.point_history = Append(history, entry)]
        ELSE IF action = "undo" THEN
            IF history # <<>> THEN
                LET last == history[Len(history)]
                    undone == IF last.team = 1
                              THEN [match EXCEPT !.team1_current_points = Max0(@ - 1)]
                              ELSE [match EXCEPT !.team2_current_points = Max0(@ - 1)]
                IN  [undone EXCEPT !.point_history = ButLast(history)]
            ELSE match
        ELSE IF action = "toggle_serve" THEN
            [match EXCEPT !.serve_team_id = team_id]
        ELSE IF action = "set_won" THEN
            [match EXCEPT
                !.team1_set_points = Append(@, match.team1_current_points),
                !.team2_set_points = Append(@, match.team2_current_points),
                !.team1_sets = IF is_team1 THEN @ + 1 ELSE @,
                !.team2_sets = IF is_team1 THEN @ ELSE @ + 1,
                !.team1_current_points = 0,
                !.team2_current_points = 0,
                !.current_set = @ + 1,
                !.point_history = <<>>]
        ELSE match

VolleyballApply(match, team_id, action) ==
    LET is_team1 == team_id = match.team1_id
        history == match.point_history
    IN  IF action = "point" THEN
            LET entry == [team |-> IF is_team1 THEN 1 ELSE 2, action |-> "point"]
                scored == IF is_team1
                          THEN [match EXCEPT !.team1_current_points = @ + 1]
                          ELSE [match EXCEPT !.team2_current_points = @ + 1]
            IN  [scored EXCEPT !.point_history = Append(history, entry)]
        ELSE IF action = "undo" THEN
            IF history # <<>> THEN
                LET last == history[Len(history)]
                    undone == IF last.team = 1
                              THEN [match EXCEPT !.team1_current_points = Max0(@ - 1)]
                              ELSE [match EXCEPT !.team2_current_points = Max0(@ - 1)]
                IN  [undone EXCEPT !.point_history = ButLast(history)]
            ELSE match
        ELSE IF action = "toggle_serve" THEN
            IF match.serve_team_id = match.team1_id
            THEN [match EXCEPT !.serve_team_id = match.team2_id]
            ELSE [match EXCEPT !.serve_team_id = match.team1_id]
        ELSE IF action = "set_won" THEN
            [match EXCEPT
                !.team1_set_points = Append(@, match.team1_current_points),
                !.team2_set_points = Append(@, match.team2_current_points),
                !.team1_sets = IF is_team1 THEN @ + 1 ELSE @,
                !.team2_sets = IF is_team1 THEN @ ELSE @ + 1,
                !.team1_current_points = 0,
                !.team2_current_points = 0,
                !.current_set = @ + 1,
                !.point_history = <<>>]
        ELSE match

-----------------------------------------------------------------------------
(* Match completion *)

\* `second_innings_score >= match.target` with target None raises TypeError.
EndMatchRaises(match) == match.sport = "cricket" /\ match.target = NoTarget

\* (winner, loser, result) as end_match computes them; NoTeam when no
\* winner is named.
EndMatchOutcome(match) ==
    LET t1 == match.team1_id
        t2 == match.team2_id
        k1 == KabaddiTotal1(match)
        k2 == KabaddiTotal2(match)
        Won(w, l, how, a, b) ==
            [winner |-> w, loser |-> l,
             result |-> [winner |-> w, how |-> how, a |-> a, b |-> b]]
    IN  IF match.sport = "cricket" THEN
            IF match.innings2_runs >= match.target
            THEN Won(t2, t1, "wickets", 10 - match.innings2_wickets, 0)
            ELSE Won(t1, t2, "runs", match.total_runs - match.innings2_runs, 0)
        ELSE IF match.sport = "kabaddi" THEN
            IF k1 > k2 THEN Won(t1, t2, "points", k1 - k2, 0)
            ELSE IF k2 > k1 THEN Won(t2, t1, "points", k2 - k1, 0)
            ELSE Won(NoTeam, NoTeam, "tied", 0, 0)
        ELSE IF match.sport = "volleyball" THEN
            IF match.ttp_points > 0 THEN
                IF match.team1_current_points > match.team2_current_points
                THEN Won(t1, t2, "score", match.team1_current_points,
                         match.team2_current_points)
                ELSE Won(t2, t1, "score", match.team2_current_points,
                         match.team1_current_points)
            ELSE
                IF match.team1_sets > match.team2_sets
                THEN Won(t1, t2, "score", match.team1_sets, match.team2_sets)
                ELSE Won(t2, t1, "score", match.team2_sets, match.team1_sets)
        ELSE [winner |-> NoTeam, loser |-> NoTeam, result |-> match.result]

EndMatchApply(match) ==
    [match EXCEPT !.status = "COMPLETED", !.result = EndMatchOutcome(match).result]

\* The sport-specific career totals end_match adds to team t.
SportStats(match, t, row) ==
    LET is1 == t = match.team1_id
    IN  IF match.sport = "cricket" THEN
            [row EXCEPT !.total_runs_scored =
                @ + (IF is1 THEN match.total_runs ELSE match.innings2_runs)]
        ELSE IF match.sport = "kabaddi" THEN
            [row EXCEPT
                !.total_raid_points =
                    @ + (IF is1 THEN match.team1_raid_points ELSE match.team2_raid_points),
                !.total_tackle_points =
                    @ + (IF is1 THEN match.team1_tackle_points ELSE match.team2_tackle_points)]
        ELSE IF match.sport = "volleyball" THEN
            [row EXCEPT !.total_sets_won =
                @ + (IF is1 THEN match.team1_sets ELSE match.team2_sets)]
        ELSE row

WinLossStats(outcome, t, row) ==
    IF outcome.winner = NoTeam \/ outcome.loser = NoTeam THEN row
    ELSE IF t = outcome.winner THEN
        [row EXCEPT !.wins = @ + 1, !.matches_played = @ + 1, !.points = @ + 2]
    ELSE IF t = outcome.loser THEN
        [row EXCEPT !.losses = @ + 1, !.matches_played = @ + 1]
    ELSE row

EndMatchTeams(match, tt) ==
    [t \in DOMAIN tt |->
        IF t \in {match.team1_id, match.team2_id}
        THEN WinLossStats(EndMatchOutcome(match), t, SportStats(match, t, tt[t]))
        ELSE tt[t]]

-----------------------------------------------------------------------------
(* ConnectionManager *)

\* `commit` is the number of the commit that produced the event; the handler
\* fills it in when it commits.
Message(event, m, data) ==
    [event |-> event, match_id |-> m, commit |-> 0, data |-> data]

\* IteratedList of a broadcast that walks one list shared by all matches:
\* the lists of every match, one after the other.
IteratedListAllMatches(task) ==
    LET after == {k \in DOMAIN active_connections : k > task.match_id}
    IN  IF task.stale \/ task.match_id \notin DOMAIN active_connections THEN <<>>
        ELSE IF after = {} THEN active_connections[task.match_id]
        ELSE active_connections[task.match_id]
                \o active_connections[CHOOSE k \in after : \A j \in after : k <= j]

\* The list object a suspended broadcast iterates.  `del
\* self.active_connections[match_id]` drops the dict's reference to a list
\* that is then empty for ever; connect() later binds a new list object.
IteratedList(task) ==
    IF task.stale \/ task.match_id \notin DOMAIN active_connections THEN <<>>
    ELSE active_connections[task.match_id]

Remove(list, w) == SelectSeq(list, LAMBDA x : x # w)

\* ConnectionManager.connect: accept, create the list if absent, append.
connect(w, m) ==
    /\ ws[w].state = "new"
    /\ ws' = [ws EXCEPT ![w] = [state |-> "open", match_id |-> m]]
    /\ active_connections' =
          IF m \in DOMAIN active_connections
          THEN [active_connections EXCEPT ![m] = Append(@, w)]
          ELSE [k \in DOMAIN active_connections \cup {m} |->
                   IF k = m THEN <<w>> ELSE active_connections[k]]
    /\ UNCHANGED <<db, teams, commits, tasks, sendq, inbox, resp>>

\* The peer goes away; websocket_endpoint has not yet seen WebSocketDisconnect.
ConnectionLost(w) ==
    /\ ws[w].state = "open"
    /\ ws' = [ws EXCEPT ![w].state = "lost"]
    /\ UNCHANGED <<db, teams, commits, active_connections, tasks, sendq, inbox, resp>>

\* disconnect that leaves the emptied list in the dict.
disconnectKeepsEntry(w) ==
    LET m == ws[w].match_id
        present == m \in DOMAIN active_connections
    IN  /\ ws[w].state \in {"open", "lost"}
        /\ ws' = [ws EXCEPT ![w].state = "closed"]
        /\ active_connections' =
              IF ~present THEN active_connections
              ELSE [active_connections EXCEPT ![m] = Remove(@, w)]
        /\ UNCHANGED <<db, teams, commits, tasks, sendq, inbox, resp>>

\* ConnectionManager.disconnect, called by websocket_endpoint on WebSocketDisconnect.
disconnect(w) ==
    LET m == ws[w].match_id
        present == m \in DOMAIN active_connections
        remaining == IF present THEN Remove(active_connections[m], w) ELSE <<>>
        deleted == present /\ remaining = <<>>
    IN  /\ ws[w].state \in {"open", "lost"}
        /\ ws' = [ws EXCEPT ![w].state = "closed"]
        /\ active_connections' =
              IF ~present THEN active_connections
              ELSE IF deleted
              THEN [k \in DOMAIN active_connections \ {m} |-> active_connections[k]]
              ELSE [active_connections EXCEPT ![m] = remaining]
        /\ tasks' = IF deleted
                    THEN {IF t.match_id = m THEN [t EXCEPT !.stale = TRUE] ELSE t : t \in tasks}
                    ELSE tasks
        /\ UNCHANGED <<db, teams, commits, sendq, inbox, resp>>

\* The sockets registered for match m.
Registered(m) ==
    IF m \in DOMAIN active_connections
    THEN {active_connections[m][k] : k \in 1..Len(active_connections[m])}
    ELSE {}

\* ConnectionManager.broadcast, awaited by a handler whose frame is `caller`:
\* the first send_json is called before the handler suspends for the first
\* time.  `audience` remembers who was registered when the loop began.
broadcast(message, m, caller) ==
    IF m \in DOMAIN active_connections /\ active_connections[m] # <<>>
    THEN LET connection == active_connections[m][1]
         IN  /\ tasks' = tasks \cup {[message |-> message, match_id |-> m, idx |-> 1,
                                      connection |-> connection, stale |-> FALSE,
                                      audience |-> Registered(m),
                                      request |-> caller.request,
                                      match |-> caller.match,
                                      response |-> caller.response]}
             /\ sendq' = [sendq EXCEPT ![connection] = Append(@, message.commit)]
             /\ UNCHANGED <<active_connections, ws, inbox, resp>>
    ELSE /\ resp' = caller.response
         /\ UNCHANGED hubVars

\* SendCompletes whose loop stops at the first send that raises (`except:
\* break`): the subscribers after it are not sent the event.
SendCompletesBreaksOnError(task) ==
    LET w == task.connection
        list == IteratedList(task)
        more == task.idx < Len(list) /\ ws[w].state = "open"
        next == list[task.idx + 1]
    IN  /\ task \in tasks
        /\ sendq[w] # <<>>
        /\ Head(sendq[w]) = task.message.commit
        /\ inbox' = IF ws[w].state = "open"
                    THEN [inbox EXCEPT ![w] = Append(@, task.message)]
                    ELSE inbox
        /\ IF more
           THEN /\ tasks' = (tasks \ {task})
                       \cup {[task EXCEPT !.idx = @ + 1, !.connection = next]}
                /\ sendq' = [sendq EXCEPT ![w] = Tail(@),
                                          ![next] = Append(IF next = w THEN Tail(@) ELSE @,
                                                           task.message.commit)]
                /\ resp' = resp
           ELSE /\ tasks' = tasks \ {task}
                /\ sendq' = [sendq EXCEPT ![w] = Tail(@)]
                /\ resp' = task.response
        /\ UNCHANGED <<db, teams, commits, active_connections, ws>>

\* SendCompletes without the try/except around send_json: the exception
\* leaves broadcast and the handler, and the request is answered 500.
SendCompletesRaises(task) ==
    LET w == task.connection
        list == IteratedList(task)
        failed == ws[w].state # "open"
        more == task.idx < Len(list) /\ ~failed
        next == list[task.idx + 1]
    IN  /\ task \in tasks
        /\ sendq[w] # <<>>
        /\ Head(sendq[w]) = task.message.commit
        /\ inbox' = IF ws[w].state = "open"
                    THEN [inbox EXCEPT ![w] = Append(@, task.message)]
                    ELSE inbox
        /\ IF more
           THEN /\ tasks' = (tasks \ {task})
                       \cup {[task EXCEPT !.idx = @ + 1, !.connection = next]}
                /\ sendq' = [sendq EXCEPT ![w] = Tail(@),
                                          ![next] = Append(IF next = w THEN Tail(@) ELSE @,
                                                           task.message.commit)]
                /\ resp' = resp
           ELSE /\ tasks' = tasks \ {task}
                /\ sendq' = [sendq EXCEPT ![w] = Tail(@)]
                /\ resp' = IF failed
                           THEN Response(task.request.op, task.match_id, 500,
                                         "Internal Server Error", NoBody)
                           ELSE task.response
        /\ UNCHANGED <<db, teams, commits, active_connections, ws>>

\* One `await connection.send_json(message)` completes (delivered, or raised
\* and logged), and the loop goes on to the next element of the list, by
\* index, or ends and the handler returns.
SendCompletes(task) ==
    LET w == task.connection
        list == IteratedList(task)
        more == task.idx < Len(list)
        next == list[task.idx + 1]
    IN  /\ task \in tasks
        /\ sendq[w] # <<>>
        /\ Head(sendq[w]) = task.message.commit
        /\ inbox' = IF ws[w].state = "open"
                    THEN [inbox EXCEPT ![w] = Append(@, task.message)]
                    ELSE inbox
        /\ IF more
           THEN /\ tasks' = (tasks \ {task})
                       \cup {[task EXCEPT !.idx = @ + 1, !.connection = next]}
                /\ sendq' = [sendq EXCEPT ![w] = Tail(@),
                                          ![next] = Append(IF next = w THEN Tail(@) ELSE @,
                                                           task.message.commit)]
                /\ resp' = resp
           ELSE /\ tasks' = tasks \ {task}
                /\ sendq' = [sendq EXCEPT ![w] = Tail(@)]
                /\ resp' = task.response
        /\ UNCHANGED <<db, teams, commits, active_connections, ws>>

-----------------------------------------------------------------------------
(* Request handlers *)

Reject(op, m, code, detail) ==
    /\ resp' = Response(op, m, code, detail, NoBody)
    /\ UNCHANGED <<db, teams, commits, hubVars>>

\* What a handler was called with: the endpoint, the match id of the path
\* and the fields of the request body.
Request(op, m, update) == [op |-> op, match_id |-> m, update |-> update]

\* A handler suspended in its broadcast: its arguments, the row object it
\* committed and the response it will return.
Frame(request, match, ok) == [request |-> request, match |-> match, response |-> ok]

\* CommitThenBroadcast with the two halves exchanged: the event goes out
\* first, and a commit that then fails leaves it out.
BroadcastThenCommit(request, row, tt, message, ok, commit_ok) ==
    /\ broadcast([message EXCEPT !.commit = commits + 1], request.match_id,
                 Frame(request, row, ok))
    /\ IF commit_ok
       THEN /\ db' = [db EXCEPT ![request.match_id] = row]
            /\ teams' = tt
            /\ commits' = commits + 1
       ELSE UNCHANGED <<db, teams, commits>>

\* db.commit() followed by `await manager.broadcast(...)` and the return.
\* A commit that raises ends the request with a 500: nothing is persisted
\* and the broadcast is never reached.
CommitThenBroadcast(request, row, tt, message, ok, commit_ok) ==
    IF commit_ok
    THEN /\ db' = [db EXCEPT ![request.match_id] = row]
         /\ teams' = tt
         /\ commits' = commits + 1
         /\ broadcast([message EXCEPT !.commit = commits + 1], request.match_id,
                      Frame(request, row, ok))
    ELSE /\ resp' = Response(request.op, request.match_id, 500, "StoreUnavailable", NoBody)
         /\ UNCHANGED <<db, teams, commits, hubVars>>

\* Load through a cache that a suspended handler of the match keeps alive:
\* the row as the longest-suspended handler committed it.
LoadStale(m) ==
    LET held == {t \in tasks : t.match_id = m}
    IN  IF held = {} THEN db[m]
        ELSE (CHOOSE t \in held : \A u \in held : t.message.commit <= u.message.commit).match

\* The row the handler's query returns.
Load(m) == db[m]

\* POST /api/matches/{match_id}/start (a plain `def`: no broadcast)
start_match(m, commit_ok) ==
    IF m \notin DOMAIN db THEN Reject("start", m, 404, "Match not found")
    ELSE IF ~commit_ok THEN Reject("start", m, 500, "StoreUnavailable")
    ELSE /\ db' = [db EXCEPT ![m] = [Load(m) EXCEPT !.status = "LIVE"]]
         /\ commits' = commits + 1
         /\ resp' = Response("start", m, 200, "Match started", [status |-> "LIVE"])
         /\ UNCHANGED <<teams, hubVars>>

\* PUT /api/matches/{match_id}/toss
save_toss(m, winner_team_id, choice, commit_ok) ==
    IF m \notin DOMAIN db THEN Reject("toss", m, 404, "Match not found")
    ELSE IF winner_team_id \notin {Load(m).team1_id, Load(m).team2_id}
    THEN Reject("toss", m, 400, "Invalid toss winner team")
    ELSE CommitThenBroadcast(Request("toss", m, <<winner_team_id, choice>>),
            TossApply(Load(m), winner_team_id, choice), teams,
            Message("toss", m, [winner |-> winner_team_id, choice |-> choice]),
            Response("toss", m, 200, "Toss saved",
                     [winner |-> winner_team_id, choice |-> choice]),
            commit_ok)

\* POST|PUT /api/matches/{match_id}/score
update_cricket_score(m, run, is_wicket, extra_type, commit_ok) ==
    IF m \notin DOMAIN db THEN Reject("score", m, 404, "Match not found")
    ELSE IF Load(m).sport # "cricket"
    THEN Reject("score", m, 400, "This endpoint is for cricket matches only")
    ELSE IF Load(m).status # "LIVE" THEN Reject("score", m, 400, "Match is not live")
    ELSE LET match == CricketApply(Load(m), run, is_wicket, extra_type)
         IN  CommitThenBroadcast(Request("score", m, <<run, is_wicket, extra_type>>),
                match, teams,
                Message("score_update", m,
                    [sport |-> "cricket", score |-> CurrentRuns(match),
                     wickets |-> CurrentWickets(match), overs |-> CurrentOvers(match),
                     current_innings |-> match.current_innings, target |-> match.target,
                     batting_team |-> match.batting_team_id,
                     bowling_team |-> match.bowling_team_id,
                     status |-> match.status,
                     last_ball |-> match.ball_history[Len(match.ball_history)]]),
                Response("score", m, 200, "Score updated",
                    [score |-> <<CurrentRuns(match), CurrentWickets(match)>>,
                     overs |-> CurrentOvers(match)]),
                commit_ok)

\* end_innings without the check of current_innings: it can be repeated.
end_inningsRepeatable(m, commit_ok) ==
    IF m \notin DOMAIN db THEN Reject("end_innings", m, 404, "Match not found")
    ELSE IF Load(m).sport # "cricket"
    THEN Reject("end_innings", m, 400, "This endpoint is for cricket matches only")
    ELSE LET match == EndInningsApply(Load(m))
         IN  CommitThenBroadcast(Request("end_innings", m, <<>>), match, teams,
                Message("innings_change", m,
                    [current_innings |-> 2, target |-> match.target,
                     batting_team |-> match.batting_team_id,
                     bowling_team |-> match.bowling_team_id]),
                Response("end_innings", m, 200, "Second innings started",
                    [target |-> match.target, batting_team |-> match.batting_team_id]),
                commit_ok)

\* POST /api/matches/{match_id}/end_innings
end_innings(m, commit_ok) ==
    IF m \notin DOMAIN db THEN Reject("end_innings", m, 404, "Match not found")
    ELSE IF Load(m).sport # "cricket"
    THEN Reject("end_innings", m, 400, "This endpoint is for cricket matches only")
    ELSE IF Load(m).current_innings = 2
    THEN Reject("end_innings", m, 400,
                "Second innings already in progress or match finished")
    ELSE LET match == EndInningsApply(Load(m))
         IN  CommitThenBroadcast(Request("end_innings", m, <<>>), match, teams,
                Message("innings_change", m,
                    [current_innings |-> 2, target |-> match.target,
                     batting_team |-> match.batting_team_id,
                     bowling_team |-> match.bowling_team_id]),
                Response("end_innings", m, 200, "Second innings started",
                    [target |-> match.target, batting_team |-> match.batting_team_id]),
                commit_ok)

KabaddiScoreData(match) ==
    [team1_score |-> [name |-> match.team1_id,
                      raid_points |-> match.team1_raid_points,
                      tackle_points |-> match.team1_tackle_points,
                      all_outs |-> match.team1_all_outs,
                      bonus_points |-> match.team1_bonus_points,
                      total |-> KabaddiTotal1(match)],
     team2_score |-> [name |-> match.team2_id,
                      raid_points |-> match.team2_raid_points,
                      tackle_points |-> match.team2_tackle_points,
                      all_outs |-> match.team2_all_outs,
                      bonus_points |-> match.team2_bonus_points,
                      total |-> KabaddiTotal2(match)]]

\* update_kabaddi_score without the validation of the team.
update_kabaddi_scoreAnyTeam(m, team_id, action, points, commit_ok) ==
    IF m \notin DOMAIN db THEN Reject("kabaddi_score", m, 404, "Match not found")
    ELSE IF Load(m).sport # "kabaddi"
    THEN Reject("kabaddi_score", m, 400, "This endpoint is for kabaddi matches only")
    ELSE IF Load(m).status # "LIVE"
    THEN Reject("kabaddi_score", m, 400, "Match is not live")
    ELSE LET match == KabaddiApply(Load(m), team_id, action, points)
         IN  CommitThenBroadcast(Request("kabaddi_score", m, <<team_id, action, points>>),
                match, teams,
                Message("score_update", m,
                    [sport |-> "kabaddi", score |-> KabaddiScoreData(match),
                     action |-> action, scoring_team |-> team_id]),
                Response("kabaddi_score", m, 200, "Score updated",
                    [team1_total |-> KabaddiTotal1(match),
                     team2_total |-> KabaddiTotal2(match)]),
                commit_ok)

\* POST|PUT /api/matches/{match_id}/kabaddi/score
update_kabaddi_score(m, team_id, action, points, commit_ok) ==
    IF m \notin DOMAIN db THEN Reject("kabaddi_score", m, 404, "Match not found")
    ELSE IF Load(m).sport # "kabaddi"
    THEN Reject("kabaddi_score", m, 400, "This endpoint is for kabaddi matches only")
    ELSE IF Load(m).status # "LIVE"
    THEN Reject("kabaddi_score", m, 400, "Match is not live")
    ELSE IF team_id \notin {Load(m).team1_id, Load(m).team2_id}
    THEN Reject("kabaddi_score", m, 400, "Invalid team ID")
    ELSE LET match == KabaddiApply(Load(m), team_id, action, points)
         IN  CommitThenBroadcast(Request("kabaddi_score", m, <<team_id, action, points>>),
                match, teams,
                Message("score_update", m,
                    [sport |-> "kabaddi", score |-> KabaddiScoreData(match),
                     action |-> action, scoring_team |-> team_id]),
                Response("kabaddi_score", m, 200, "Score updated",
                    [team1_total |-> KabaddiTotal1(match),
                     team2_total |-> KabaddiTotal2(match)]),
                commit_ok)

\* switch_kabaddi_half without the check of the sport.
switch_kabaddi_halfAnySport(m, commit_ok) ==
    IF m \notin DOMAIN db THEN Reject("kabaddi_half", m, 404, "Match not found")
    ELSE CommitThenBroadcast(Request("kabaddi_half", m, <<>>),
            [Load(m) EXCEPT !.current_half = 2], teams,
            Message("half_change", m, [current_half |-> 2]),
            Response("kabaddi_half", m, 200, "Second half started", NoBody),
            commit_ok)

\* switch_kabaddi_half that flips the half instead of setting it to 2.
switch_kabaddi_halfToggles(m, commit_ok) ==
    IF m \notin DOMAIN db THEN Reject("kabaddi_half", m, 404, "Match not found")
    ELSE IF Load(m).sport # "kabaddi"
    THEN Reject("kabaddi_half", m, 400, "This endpoint is for kabaddi matches only")
    ELSE CommitThenBroadcast(Request("kabaddi_half", m, <<>>),
            [Load(m) EXCEPT !.current_half = 3 - @], teams,
            Message("half_change", m, [current_half |-> 2]),
            Response("kabaddi_half", m, 200, "Second half started", NoBody),
            commit_ok)

\* POST /api/matches/{match_id}/kabaddi/half
switch_kabaddi_half(m, commit_ok) ==
    IF m \notin DOMAIN db THEN Reject("kabaddi_half", m, 404, "Match not found")
    ELSE IF Load(m).sport # "kabaddi"
    THEN Reject("kabaddi_half", m, 400, "This endpoint is for kabaddi matches only")
    ELSE CommitThenBroadcast(Request("kabaddi_half", m, <<>>),
            [Load(m) EXCEPT !.current_half = 2], teams,
            Message("half_change", m, [current_half |-> 2]),
            Response("kabaddi_half", m, 200, "Second half started", NoBody),
            commit_ok)

\* update_volleyball_score whose undo pops the history without looking
\* whether it is empty: history.pop() raises IndexError.
update_volleyball_scorePopUnchecked(m, team_id, action, commit_ok) ==
    IF m \notin DOMAIN db THEN Reject("volleyball_score", m, 404, "Match not found")
    ELSE IF Load(m).sport # "volleyball"
    THEN Reject("volleyball_score", m, 400, "This endpoint is for volleyball matches only")
    ELSE IF Load(m).status # "LIVE"
    THEN Reject("volleyball_score", m, 400, "Match is not live")
    ELSE IF action = "undo" /\ Load(m).point_history = <<>>
    THEN Reject("volleyball_score", m, 500, "IndexError")
    ELSE LET match == VolleyballApply(Load(m), team_id, action)
         IN  CommitThenBroadcast(Request("volleyball_score", m, <<team_id, action>>),
                match, teams,
                Message("score_update", m,
                    [sport |-> "volleyball", current_set |-> match.current_set,
                     serve_team |-> match.serve_team_id,
                     team1_score |-> [name |-> match.team1_id, sets |-> match.team1_sets,
                                      current_points |-> match.team1_current_points,
                                      set_points |-> match.team1_set_points],
                     team2_score |-> [name |-> match.team2_id, sets |-> match.team2_sets,
                                      current_points |-> match.team2_current_points,
                                      set_points |-> match.team2_set_points],
                     action |-> action]),
                Response("volleyball_score", m, 200, "Score updated",
                    [team1_points |-> match.team1_current_points,
                     team2_points |-> match.team2_current_points,
                     team1_sets |-> match.team1_sets,
                     team2_sets |-> match.team2_sets]),
                commit_ok)

\* POST|PUT /api/matches/{match_id}/volleyball/score
update_volleyball_score(m, team_id, action, commit_ok) ==
    IF m \notin DOMAIN db THEN Reject("volleyball_score", m, 404, "Match not found")
    ELSE IF Load(m).sport # "volleyball"
    THEN Reject("volleyball_score", m, 400, "This endpoint is for volleyball matches only")
    ELSE IF Load(m).status # "LIVE"
    THEN Reject("volleyball_score", m, 400, "Match is not live")
    ELSE LET match == VolleyballApply(Load(m), team_id, action)
         IN  CommitThenBroadcast(Request("volleyball_score", m, <<team_id, action>>),
                match, teams,
                Message("score_update", m,
                    [sport |-> "volleyball", current_set |-> match.current_set,
                     serve_team |-> match.serve_team_id,
                     team1_score |-> [name |-> match.team1_id, sets |-> match.team1_sets,
                                      current_points |-> match.team1_current_points,
                                      set_points |-> match.team1_set_points],
                     team2_score |-> [name |-> match.team2_id, sets |-> match.team2_sets,
                                      current_points |-> match.team2_current_points,
                                      set_points |-> match.team2_set_points],
                     action |-> action]),
                Response("volleyball_score", m, 200, "Score updated",
                    [team1_points |-> match.team1_current_points,
                     team2_points |-> match.team2_current_points,
                     team1_sets |-> match.team1_sets,
                     team2_sets |-> match.team2_sets]),
                commit_ok)

\* POST|PUT /api/matches/{match_id}/complete, POST .../end_match
end_match(m, commit_ok) ==
    IF m \notin DOMAIN db THEN Reject("complete", m, 404, "Match not found")
    ELSE IF EndMatchRaises(Load(m)) THEN Reject("complete", m, 500, "TypeError")
    ELSE LET match == EndMatchApply(Load(m))
         IN  CommitThenBroadcast(Request("complete", m, <<>>), match, EndMatchTeams(Load(m), teams),
                Message("match_end", m, [status |-> "COMPLETED", result |-> match.result]),
                Response("complete", m, 200, "Match completed", [result |-> match.result]),
                commit_ok)

\* The sport-specific part of the body get_match_details returns.
MatchDetails(match) ==
    IF match.sport = "cricket" THEN
        [sport |-> match.sport, status |-> match.status, result |-> match.result,
         total_overs |-> match.total_overs,
         current_innings |-> match.current_innings, target |-> match.target,
         batting_team |-> match.batting_team_id, bowling_team |-> match.bowling_team_id,
         innings1 |-> [runs |-> match.total_runs, wickets |-> match.wickets,
                       overs |-> match.overs],
         innings2 |-> IF match.current_innings = 2
                      THEN [runs |-> match.innings2_runs,
                            wickets |-> match.innings2_wickets,
                            overs |-> match.innings2_overs]
                      ELSE NoBody,
         ball_history |-> match.ball_history]
    ELSE IF match.sport = "kabaddi" THEN
        [sport |-> match.sport, status |-> match.status, result |-> match.result,
         half_duration_minutes |-> match.half_duration_minutes,
         current_half |-> match.current_half,
         team1_score |-> [raid_points |-> match.team1_raid_points,
                          tackle_points |-> match.team1_tackle_points,
                          all_outs |-> match.team1_all_outs,
                          bonus_points |-> match.team1_bonus_points,
                          total |-> match.team1_raid_points + match.team1_tackle_points
                                      + (match.team1_all_outs * 2)
                                      + match.team1_bonus_points],
         team2_score |-> [raid_points |-> match.team2_raid_points,
                          tackle_points |-> match.team2_tackle_points,
                          all_outs |-> match.team2_all_outs,
                          bonus_points |-> match.team2_bonus_points,
                          total |-> match.team2_raid_points + match.team2_tackle_points
                                      + (match.team2_all_outs * 2)
                                      + match.team2_bonus_points]]
    ELSE
        [sport |-> match.sport, status |-> match.status, result |-> match.result,
         ttp_points |-> match.ttp_points, total_sets |-> match.total_sets,
         current_set |-> match.current_set, serve_team_id |-> match.serve_team_id,
         team1_score |-> [sets |-> match.team1_sets,
                          current_points |-> match.team1_current_points,
                          set_points |-> match.team1_set_points],
         team2_score |-> [sets |-> match.team2_sets,
                          current_points |-> match.team2_current_points,
                          set_points |-> match.team2_set_points],
         point_history |-> match.point_history]

\* GET /api/matches/{match_id} (a plain `def`: reads only)
get_match_details(m) ==
    IF m \notin DOMAIN db THEN Reject("details", m, 404, "Match not found")
    ELSE /\ resp' = Response("details", m, 200, "OK", MatchDetails(Load(m)))
         /\ UNCHANGED <<db, teams, commits, hubVars>>

-----------------------------------------------------------------------------
(* Initial states *)

\* The server has just started and the store holds one match between teams
\* 1 and 2 as create_match wrote it.
InitWith(sports, ttps) ==
    /\ \E sport \in sports, ttp \in ttps :
          /\ db = [m \in {1} |-> NewMatch(sport, 1, 2, ttp)]
          /\ teams = [t \in {1, 2} |-> NewTeam(sport)]
    /\ commits = 0
    /\ active_connections = [m \in {} |-> <<>>]
    /\ ws = [w \in Sockets |-> [state |-> "new", match_id |-> 0]]
    /\ tasks = {}
    /\ sendq = [w \in Sockets |-> <<>>]
    /\ inbox = [w \in Sockets |-> <<>>]
    /\ resp = NoResponse

-----------------------------------------------------------------------------
(* SpecCricket: one cricket match scored ball by ball, without spectators. *)
(* A run of at most MaxBalls deliveries: plain ones (a single off a legal  *)
(* ball, or a wide), of which the last may be any delivery at all.         *)

PlainDeliveries == {<<1, FALSE, "None">>, <<0, FALSE, "WD">>}

AllDeliveries == (0..6) \X BOOLEAN \X ExtraTypes

OnlyPlain(history) ==
    \A k \in 1..Len(history) :
        <<history[k].runs, history[k].wicket, history[k].extra_type>> \in PlainDeliveries

InitCricket == InitWith({"cricket"}, {0})

CricketStart ==
    /\ db[1].status = "UPCOMING"
    /\ start_match(1, TRUE)

CricketDelivery ==
    /\ Len(db[1].ball_history) < MaxBalls
    /\ OnlyPlain(db[1].ball_history)
    /\ \E d \in AllDeliveries : update_cricket_score(1, d[1], d[2], d[3], TRUE)

CricketEndInnings == end_innings(1, TRUE)

NextCricket == CricketStart \/ CricketDelivery \/ CricketEndInnings

SpecCricket == InitCricket /\ [][NextCricket]_vars

\* Legal balls bowled, from an overs value k.d: 6k + d.
LegalBalls(ov) == 6 * (ov \div 10) + (ov % 10)

InningsEntries(match, i) ==
    {k \in 1..Len(match.ball_history) : match.ball_history[k].innings = i}

NoExtras(match, i) ==
    \A k \in InningsEntries(match, i) : ~(match.ball_history[k].extra_type \in {"WD", "NB"})

OversOf(match, i) == IF i = 1 THEN match.overs ELSE match.innings2_overs

\* C9: starting from overs 0.0, after n deliveries of an innings none of which
\* is a wide or a no-ball, the innings' overs value has integer part n div 6
\* and tenths digit n mod 6.
C9_OversCountLegalBalls ==
    \A i \in {1, 2} :
        NoExtras(db[1], i) =>
            LET n == Cardinality(InningsEntries(db[1], i))
            IN  /\ OversOf(db[1], i) \div 10 = n \div 6
                /\ OversOf(db[1], i) % 10 = n % 6

\* Seven deliveries without extras have been bowled in one innings: the over rolled.
C9_Witness ==
    \E i \in {1, 2} :
        /\ NoExtras(db[1], i)
        /\ Cardinality(InningsEntries(db[1], i)) = 7
        /\ OversOf(db[1], i) = 11

\* C10: a wide or no-ball, for any declared run value 0..6, leaves the current
\* innings' overs value unchanged and adds exactly 1 + declared runs to its
\* runs; every other delivery adds exactly the declared runs and advances the
\* legal-ball count by one.
C10_DeliveryFrame ==
    [][LET old == db[1]
           new == db'[1]
           delivered == Len(new.ball_history) = Len(old.ball_history) + 1
           ball == new.ball_history[Len(new.ball_history)]
       IN  delivered =>
              IF ball.extra_type \in {"WD", "NB"}
              THEN /\ CurrentOvers(new) = CurrentOvers(old)
                   /\ CurrentRuns(new) = CurrentRuns(old) + 1 + ball.runs
              ELSE /\ CurrentRuns(new) = CurrentRuns(old) + ball.runs
                   /\ LegalBalls(CurrentOvers(new)) = LegalBalls(CurrentOvers(old)) + 1
      ]_vars

\* A no-ball with six declared runs was bowled with five legal balls gone in
\* the over, and the over is still at five balls.
C10_Witness ==
    LET h == db[1].ball_history
    IN  /\ h # <<>>
        /\ h[Len(h)].extra_type = "NB"
        /\ h[Len(h)].runs = 6
        /\ h[Len(h)].total_runs = 7
        /\ h[Len(h)].innings = db[1].current_innings
        /\ CurrentOvers(db[1]) % 10 = 5

-----------------------------------------------------------------------------
(* SpecLife: the life of one match of any sport, from creation on, under   *)
(* every command of the API in any order, with one spectator.  At most     *)
(* MaxCommitsLife commits.                                                 *)

LifeSockets == {1}
LifeDeliveries == {<<1, FALSE, "None">>, <<0, TRUE, "WD">>}
LifeKabaddi == {<<1, "raid", 2>>, <<2, "all_out", 1>>, <<3, "raid", 1>>}
LifeVolleyball == {<<1, "point">>, <<2, "point">>, <<1, "undo">>, <<2, "set_won">>,
                   <<1, "toggle_serve">>}
LifeToss == {<<1, "bat">>, <<2, "bowl">>, <<2, "raid">>, <<3, "bat">>}

InitLife == InitWith(Sports, {0})

LifeBound == commits < MaxCommitsLife

LifeStart == LifeBound /\ start_match(1, TRUE)

LifeToss1 == LifeBound /\ \E t \in LifeToss : save_toss(1, t[1], t[2], TRUE)

LifeCricketScore ==
    LifeBound /\ \E d \in LifeDeliveries : update_cricket_score(1, d[1], d[2], d[3], TRUE)

LifeEndInnings == LifeBound /\ end_innings(1, TRUE)

LifeKabaddiScore ==
    LifeBound /\ \E k \in LifeKabaddi : update_kabaddi_score(1, k[1], k[2], k[3], TRUE)

LifeSwitchHalf == LifeBound /\ switch_kabaddi_half(1, TRUE)

LifeVolleyballScore ==
    LifeBound /\ \E v \in LifeVolleyball : update_volleyball_score(1, v[1], v[2], TRUE)

LifeEndMatch == LifeBound /\ end_match(1, TRUE)

LifeConnect == \E w \in LifeSockets : connect(w, 1)

LifeDisconnect == \E w \in LifeSockets : disconnect(w)

LifeSend == \E task \in tasks : SendCompletes(task)

NextLife ==
    \/ LifeStart
    \/ LifeToss1
    \/ LifeCricketScore
    \/ LifeEndInnings
    \/ LifeKabaddiScore
    \/ LifeSwitchHalf
    \/ LifeVolleyballScore
    \/ LifeEndMatch
    \/ LifeConnect
    \/ LifeDisconnect
    \/ LifeSend

SpecLife == InitLife /\ [][NextLife]_vars

StatusRank(status) ==
    IF status = "UPCOMING" THEN 0 ELSE IF status = "LIVE" THEN 1 ELSE 2

\* C1: a match's status only moves forward along UPCOMING -> LIVE ->
\* COMPLETED: no operation takes it from COMPLETED to LIVE or UPCOMING, or
\* from LIVE to UPCOMING.
C1_StatusMonotonic ==
    [][\A m \in DOMAIN db : StatusRank(db'[m].status) >= StatusRank(db[m].status)]_vars

\* The scoring payload of a match row: the columns of its own sport.
Payload(match) ==
    IF match.sport = "cricket" THEN
        <<match.total_runs, match.wickets, match.overs,
          match.innings2_runs, match.innings2_wickets, match.innings2_overs,
          match.current_innings, match.target,
          match.batting_team_id, match.bowling_team_id>>
    ELSE IF match.sport = "kabaddi" THEN
        <<match.team1_raid_points, match.team1_tackle_points,
          match.team1_all_outs, match.team1_bonus_points,
          match.team2_raid_points, match.team2_tackle_points,
          match.team2_all_outs, match.team2_bonus_points, match.current_half>>
    ELSE
        <<match.team1_current_points, match.team2_current_points,
          match.team1_sets, match.team2_sets,
          match.team1_set_points, match.team2_set_points, match.serve_team_id>>

\* C2: once a match is COMPLETED no operation changes its scoring payload.
C2_CompletedPayloadFrozen ==
    [][\A m \in DOMAIN db :
          db[m].status = "COMPLETED" => Payload(db'[m]) = Payload(db[m])]_vars

\* A step in which a mutation command other than start, of the sport of
\* match m, is served for m while the store is available.
MutationCommand(m) ==
    \/ end_match(m, TRUE)
    \/ /\ db[m].sport = "cricket"
       /\ \/ end_innings(m, TRUE)
          \/ \E d \in LifeDeliveries : update_cricket_score(m, d[1], d[2], d[3], TRUE)
    \/ /\ db[m].sport = "kabaddi"
       /\ \/ switch_kabaddi_half(m, TRUE)
          \/ \E k \in LifeKabaddi : update_kabaddi_score(m, k[1], k[2], k[3], TRUE)
    \/ /\ db[m].sport = "volleyball"
       /\ \E v \in LifeVolleyball : update_volleyball_score(m, v[1], v[2], TRUE)

\* C3: every mutation command other than start issued against a match whose
\* status is not LIVE fails with NotLive, leaves the persisted match unchanged
\* and broadcasts no event.
C3_NotLiveRejected ==
    [][\A m \in DOMAIN db :
          (db[m].status # "LIVE" /\ MutationCommand(m)) =>
             /\ resp'.code = 400
             /\ resp'.detail = "Match is not live"
             /\ db' = db
             /\ tasks' = tasks]_vars

\* C4: start succeeds only when the match is UPCOMING; on a match that is
\* already LIVE or COMPLETED it is rejected and leaves the status unchanged.
C4_StartOnlyFromUpcoming ==
    [][\A m \in DOMAIN db :
          (db[m].status # "UPCOMING" /\ start_match(m, TRUE)) =>
             /\ resp'.code # 200
             /\ db'[m].status = db[m].status]_vars

-----------------------------------------------------------------------------
(* SpecStore: one match of any sport is started, scored and completed for  *)
(* one spectator while the store may refuse any commit.  Requests may name *)
(* a match that does not exist.  At most MaxCommitsStore commits.          *)

StoreSockets == {1}
StoreDeliveries == {<<4, FALSE, "None">>, <<0, TRUE, "NB">>}
StoreKabaddi == {<<1, "raid", 2>>, <<2, "super_tackle", 1>>}
StoreVolleyball == {<<1, "point">>, <<2, "set_won">>, <<1, "undo">>}

InitStore == InitWith(Sports, {0})

StoreBound == commits < MaxCommitsStore

StoreStart == StoreBound /\ \E m \in MatchIds, ok \in BOOLEAN : start_match(m, ok)

StoreCricketScore ==
    StoreBound /\ \E m \in MatchIds, d \in StoreDeliveries, ok \in BOOLEAN :
        update_cricket_score(m, d[1], d[2], d[3], ok)

StoreEndInnings == StoreBound /\ \E m \in MatchIds, ok \in BOOLEAN : end_innings(m, ok)

StoreKabaddiScore ==
    StoreBound /\ \E m \in MatchIds, k \in StoreKabaddi, ok \in BOOLEAN :
        update_kabaddi_score(m, k[1], k[2], k[3], ok)

StoreVolleyballScore ==
    StoreBound /\ \E m \in MatchIds, v \in StoreVolleyball, ok \in BOOLEAN :
        update_volleyball_score(m, v[1], v[2], ok)

StoreEndMatch == StoreBound /\ \E m \in MatchIds, ok \in BOOLEAN : end_match(m, ok)

StoreConnect == \E w \in StoreSockets : connect(w, 1)

StoreDisconnect == \E w \in StoreSockets : disconnect(w)

StoreSend == \E task \in tasks : SendCompletes(task)

NextStore ==
    \/ StoreStart
    \/ StoreCricketScore
    \/ StoreEndInnings
    \/ StoreKabaddiScore
    \/ StoreVolleyballScore
    \/ StoreEndMatch
    \/ StoreConnect
    \/ StoreDisconnect
    \/ StoreSend

SpecStore == InitStore /\ [][NextStore]_vars

\* Every message that is being fanned out or has been received.
Events ==
    {t.message : t \in tasks}
        \cup UNION {{inbox[w][k] : k \in 1..Len(inbox[w])} : w \in Sockets}

\* The event's snapshot is what the row holds.
Agrees(message, match) ==
    LET data == message.data
    IN  IF message.event = "toss" THEN
            match.toss_winner_id = data.winner /\ match.toss_choice = data.choice
        ELSE IF message.event = "innings_change" THEN
            match.current_innings = data.current_innings /\ match.target = data.target
        ELSE IF message.event = "half_change" THEN
            match.current_half = data.current_half
        ELSE IF message.event = "match_end" THEN
            match.status = data.status /\ match.result = data.result
        ELSE IF data.sport = "cricket" THEN
            /\ CurrentRuns(match) = data.score
            /\ CurrentWickets(match) = data.wickets
            /\ CurrentOvers(match) = data.overs
            /\ match.ball_history # <<>>
            /\ match.ball_history[Len(match.ball_history)] = data.last_ball
        ELSE IF data.sport = "kabaddi" THEN
            KabaddiScoreData(match) = data.score
        ELSE
            /\ match.current_set = data.current_set
            /\ match.serve_team_id = data.serve_team
            /\ match.team1_current_points = data.team1_score.current_points
            /\ match.team2_current_points = data.team2_score.current_points
            /\ match.team1_sets = data.team1_score.sets
            /\ match.team2_sets = data.team2_score.sets
            /\ match.team1_set_points = data.team1_score.set_points
            /\ match.team2_set_points = data.team2_score.set_points

\* C8: an event is sent only after the mutation that produced it has been
\* committed (it carries the number of a commit that has happened, and the
\* event of the latest commit shows what the store holds); a mutation whose
\* commit fails broadcasts no event and leaves the persisted state unchanged.
C8_BroadcastAfterCommit ==
    /\ [](\A e \in Events :
            /\ e.commit \in 1..commits
            /\ e.commit = commits => Agrees(e, db[e.match_id]))
    /\ [][(resp' # resp /\ resp'.detail = "StoreUnavailable") =>
            (db' = db /\ teams' = teams /\ tasks' = tasks /\ inbox' = inbox)]_vars

\* A spectator has received the event of a committed mutation, and a later
\* scoring or completion request has just failed to commit.
C8_Witness ==
    /\ \E w \in Sockets : inbox[w] # <<>>
    /\ resp.detail = "StoreUnavailable"
    /\ resp.op \in {"score", "volleyball_score", "complete"}

-----------------------------------------------------------------------------
(* SpecHub: the spectators of one kabaddi match come and go while events   *)
(* of the match are fanned out.  At most MaxCommitsHub commits.            *)

InitHub == InitWith({"kabaddi"}, {0})

HubBound == commits < MaxCommitsHub

HubStart ==
    /\ HubBound
    /\ db[1].status = "UPCOMING"
    /\ start_match(1, TRUE)

HubScore == HubBound /\ update_kabaddi_score(1, 1, "raid", 1, TRUE)

HubHalf == HubBound /\ switch_kabaddi_half(1, TRUE)

HubConnect == \E w \in Sockets : connect(w, 1)

HubLost == \E w \in Sockets : ConnectionLost(w)

HubDisconnect == \E w \in Sockets : disconnect(w)

HubSend == \E task \in tasks : SendCompletes(task)

NextHub ==
    \/ HubStart
    \/ HubScore
    \/ HubHalf
    \/ HubConnect
    \/ HubLost
    \/ HubDisconnect
    \/ HubSend

SpecHub == InitHub /\ [][NextHub]_vars

Received(w, message) == \E k \in 1..Len(inbox[w]) : inbox[w][k] = message

\* C6: when a subscriber of a match is removed from the registry while a
\* publish to that match is under way, every other subscriber that was
\* registered when the publish began and is still registered (its connection
\* open) when the publish ends has been sent the event.
C6_DisconnectDuringPublish ==
    [][\A t \in tasks :
          LET ends == \A u \in tasks' : u.message.commit # t.message.commit
              left == \E x \in t.audience : x \notin Registered(t.match_id)'
          IN  (ends /\ left) =>
                 \A w \in t.audience :
                    (w \in Registered(t.match_id)' /\ ws'[w].state = "open")
                        => Received(w, t.message)'
      ]_vars

\* C7: every subscriber receives the events of a match in the order in which
\* the mutations that produced them were committed.
C7_CommitOrderPerSubscriber ==
    \A w \in Sockets :
        \A i, j \in 1..Len(inbox[w]) :
            (i < j /\ inbox[w][i].match_id = inbox[w][j].match_id)
                => inbox[w][i].commit < inbox[w][j].commit

-----------------------------------------------------------------------------
(* SpecConc: scoring requests for one cricket or kabaddi match arrive      *)
(* while earlier ones are still suspended in their fan-out.  At most       *)
(* MaxCommitsConc commits.                                                 *)

ConcSockets == {1, 2}
ConcDeliveries == {<<1, FALSE, "None">>, <<0, TRUE, "WD">>}
ConcKabaddi == {<<1, "raid", 2>>, <<2, "tackle", 1>>}

InitConc == InitWith({"cricket", "kabaddi"}, {0})

ConcBound == commits < MaxCommitsConc

ConcStart ==
    /\ ConcBound
    /\ db[1].status = "UPCOMING"
    /\ start_match(1, TRUE)

ConcCricketScore ==
    ConcBound /\ \E d \in ConcDeliveries : update_cricket_score(1, d[1], d[2], d[3], TRUE)

ConcKabaddiScore ==
    ConcBound /\ \E k \in ConcKabaddi : update_kabaddi_score(1, k[1], k[2], k[3], TRUE)

ConcConnect == \E w \in ConcSockets : connect(w, 1)

ConcDisconnect == \E w \in ConcSockets : disconnect(w)

ConcSend == \E task \in tasks : SendCompletes(task)

NextConc ==
    \/ ConcStart
    \/ ConcCricketScore
    \/ ConcKabaddiScore
    \/ ConcConnect
    \/ ConcDisconnect
    \/ ConcSend

SpecConc == InitConc /\ [][NextConc]_vars

\* The transition a scoring request asks for, applied to a row.
Transition(request, match) ==
    IF request.op = "score"
    THEN CricketApply(match, request.update[1], request.update[2], request.update[3])
    ELSE IF request.op = "kabaddi_score"
    THEN KabaddiApply(match, request.update[1], request.update[2], request.update[3])
    ELSE match

\* Two scoring requests of the same match that are in progress together and
\* committed one right after the other.
Overlapping(a, b) ==
    /\ a \in tasks
    /\ b \in tasks
    /\ a.match_id = b.match_id
    /\ b.message.commit = a.message.commit + 1
    /\ a.request.op \in {"score", "kabaddi_score"}
    /\ b.request.op \in {"score", "kabaddi_score"}

\* C5: scoring requests for the same match that are in progress at the same
\* time take effect one after the other: the later one commits its transition
\* applied to exactly the row the earlier one committed, and while it is the
\* latest commit the store holds exactly that row.
C5_SerialEffect ==
    /\ \A a, b \in tasks : Overlapping(a, b) => b.match = Transition(b.request, a.match)
    /\ \A b \in tasks : b.message.commit = commits => db[b.match_id] = b.match

\* Two scoring requests are suspended in their fan-out at once and the store
\* holds the outcome of both.
C5_Witness ==
    \E a, b \in tasks :
        /\ Overlapping(a, b)
        /\ b.message.commit = commits
        /\ a.match # b.match
        /\ db[b.match_id] = Transition(b.request, a.match)

-----------------------------------------------------------------------------
(* SpecInnings: one cricket match under every cricket command in any       *)
(* order: start, toss, deliveries, end of innings and completion.  No      *)
(* spectators.  At most MaxCommitsInnings commits.                         *)

InningsDeliveries == {<<4, FALSE, "None">>, <<0, TRUE, "None">>, <<1, FALSE, "WD">>}
InningsToss == {<<1, "bat">>, <<1, "bowl">>}

InitInnings == InitWith({"cricket"}, {0})

InningsBound == commits < MaxCommitsInnings

InningsStart == InningsBound /\ start_match(1, TRUE)

InningsSaveToss == InningsBound /\ \E t \in InningsToss : save_toss(1, t[1], t[2], TRUE)

InningsScore ==
    InningsBound /\ \E d \in InningsDeliveries : update_cricket_score(1, d[1], d[2], d[3], TRUE)

InningsEnd == InningsBound /\ end_innings(1, TRUE)

InningsEndMatch == InningsBound /\ end_match(1, TRUE)

NextInnings ==
    \/ InningsStart
    \/ InningsSaveToss
    \/ InningsScore
    \/ InningsEnd
    \/ InningsEndMatch

SpecInnings == InitInnings /\ [][NextInnings]_vars

\* The deliveries recorded in the ball history, as they were requested.
Delivered(match) ==
    [k \in 1..Len(match.ball_history) |->
        <<match.ball_history[k].runs, match.ball_history[k].wicket,
          match.ball_history[k].extra_type, match.ball_history[k].innings>>]

\* The match was started with all counters zero and exactly the deliveries
\* (4, no wicket, no extra), (0, wicket, no extra), (1, wide) have been applied
\* to its first innings, in that order.
Scenario(match) ==
    /\ match.status = "LIVE"
    /\ match.total_overs = 20
    /\ match.current_innings = 1
    /\ Delivered(match) = << <<4, FALSE, "None", 1>>, <<0, TRUE, "None", 1>>,
                             <<1, FALSE, "WD", 1>> >>

\* C11 as stated: from a freshly started LIVE cricket match, the deliveries
\* (4, no wicket, no extra), (0, wicket, no extra), (1, wide) in that order
\* yield runs 5, wickets 1 and overs 0.1 for the first innings.
C11_ScenarioAsStated ==
    Scenario(db[1]) =>
        db[1].total_runs = 5 /\ db[1].wickets = 1 /\ db[1].overs = 1

\* C11 amended: the same three deliveries yield runs 6 (4 + 0 + the wide's
\* 1 + 1), wickets 1 and overs 0.2 (the four and the wicket ball are both
\* legal balls, the wide is not).
C11_ScenarioAsScored ==
    Scenario(db[1]) =>
        db[1].total_runs = 6 /\ db[1].wickets = 1 /\ db[1].overs = 2

\* The three deliveries of the scenario have just been applied and the last
\* response reports the score after the wide.
C11_Witness ==
    /\ Scenario(db[1])
    /\ resp.op = "score"
    /\ resp.code = 200
    /\ db[1].ball_history[3].total_runs = 2

\* C12: end_innings succeeds only when current_innings is 1, and after it
\* target is the first-innings runs at that moment plus 1 and current_innings
\* is 2; the innings never goes back to 1, and any later end_innings call fails
\* with InvalidState and changes neither target, current_innings nor the
\* batting/bowling assignment.
C12_EndInningsOnce ==
    [][/\ db[1].current_innings = 2 => db'[1].current_innings = 2
       /\ end_innings(1, TRUE) =>
             IF db[1].current_innings = 1
             THEN /\ db'[1].target = db[1].total_runs + 1
                  /\ db'[1].current_innings = 2
             ELSE /\ resp'.code = 400
                  /\ resp'.detail = "Second innings already in progress or match finished"
                  /\ db'[1].target = db[1].target
                  /\ db'[1].current_innings = db[1].current_innings
                  /\ db'[1].batting_team_id = db[1].batting_team_id
                  /\ db'[1].bowling_team_id = db[1].bowling_team_id
      ]_vars

\* The first innings was closed on 4 runs or more and a later end_innings
\* call has just been refused.
C12_Witness ==
    /\ resp.op = "end_innings"
    /\ resp.code = 400
    /\ db[1].current_innings = 2
    /\ db[1].target = db[1].total_runs + 1
    /\ db[1].target >= 5

\* C13: in every reachable state of a cricket match current_innings is 1 or 2
\* and never goes from 2 back to 1; target is unset while current_innings is
\* 1, and while it is 2 target is the persisted first-innings runs + 1:
\* nothing done in innings 2 modifies the first-innings runs, wickets or
\* overs, nor the target.
C13_InningsAndTarget ==
    /\ [](/\ db[1].current_innings \in {1, 2}
          /\ db[1].current_innings = 1 => db[1].target = NoTarget
          /\ db[1].current_innings = 2 => db[1].target = db[1].total_runs + 1)
    /\ [][db[1].current_innings = 2 =>
            /\ db'[1].current_innings = 2
            /\ db'[1].total_runs = db[1].total_runs
            /\ db'[1].wickets = db[1].wickets
            /\ db'[1].overs = db[1].overs
            /\ db'[1].target = db[1].target]_vars

\* A delivery has been scored in the second innings after a first innings
\* that had runs, a wicket and legal balls of its own.
C13_Witness ==
    /\ db[1].current_innings = 2
    /\ db[1].total_runs > 0
    /\ db[1].wickets > 0
    /\ db[1].innings2_runs > 0
    /\ db[1].innings2_overs > 0
    /\ db[1].target = db[1].total_runs + 1

-----------------------------------------------------------------------------
(* SpecKabaddi: one kabaddi match under every kabaddi command in any       *)
(* order, for every action and for teams that do and do not play in it,    *)
(* with one spectator and a reader of the match-detail view.  At most      *)
(* MaxCommitsKabaddi commits.                                              *)

KabaddiSockets == {1}
RaidPoints == {0, 1, 2}

\* (team_id, action, points); points defaults to 1 and only a raid reads it.
KabaddiInputs ==
    {<<t, "raid", p>> : t \in TeamIds, p \in RaidPoints}
        \cup {<<t, a, 1>> : t \in TeamIds, a \in KabaddiActions \ {"raid"}}

InitKabaddi == InitWith({"kabaddi"}, {0})

KabaddiBound == commits < MaxCommitsKabaddi

KabaddiStart == KabaddiBound /\ start_match(1, TRUE)

KabaddiScore ==
    KabaddiBound /\ \E k \in KabaddiInputs : update_kabaddi_score(1, k[1], k[2], k[3], TRUE)

KabaddiHalf == KabaddiBound /\ switch_kabaddi_half(1, TRUE)

KabaddiEndMatch == KabaddiBound /\ end_match(1, TRUE)

KabaddiDetails == get_match_details(1)

KabaddiConnect == \E w \in KabaddiSockets : connect(w, 1)

KabaddiDisconnect == \E w \in KabaddiSockets : disconnect(w)

KabaddiSend == \E task \in tasks : SendCompletes(task)

NextKabaddi ==
    \/ KabaddiStart
    \/ KabaddiScore
    \/ KabaddiHalf
    \/ KabaddiEndMatch
    \/ KabaddiDetails
    \/ KabaddiConnect
    \/ KabaddiDisconnect
    \/ KabaddiSend

SpecKabaddi == InitKabaddi /\ [][NextKabaddi]_vars

\* The derived total of the spec, from the four component counters.
DerivedTotal(raid, tackle, all_outs, bonus) == raid + tackle + 2 * all_outs + bonus

Derived1(match) ==
    DerivedTotal(match.team1_raid_points, match.team1_tackle_points,
                 match.team1_all_outs, match.team1_bonus_points)

Derived2(match) ==
    DerivedTotal(match.team2_raid_points, match.team2_tackle_points,
                 match.team2_all_outs, match.team2_bonus_points)

\* The completion result names the team with the larger total and the
\* difference of the totals, or a tie when they are equal.
ResultTotals(result, row) ==
    IF Derived1(row) > Derived2(row)
    THEN result = [winner |-> row.team1_id, how |-> "points",
                   a |-> Derived1(row) - Derived2(row), b |-> 0]
    ELSE IF Derived2(row) > Derived1(row)
    THEN result = [winner |-> row.team2_id, how |-> "points",
                   a |-> Derived2(row) - Derived1(row), b |-> 0]
    ELSE result = [winner |-> NoTeam, how |-> "tied", a |-> 0, b |-> 0]

\* What a scoring or completion response reports is computed from the row.
ResponseTotals(response, row) ==
    /\ (response.op = "kabaddi_score" /\ response.code = 200) =>
          /\ response.body.team1_total = Derived1(row)
          /\ response.body.team2_total = Derived2(row)
    /\ (response.op = "complete" /\ response.code = 200) =>
          ResultTotals(response.body.result, row)

\* What a score_update or match_end event reports is computed from the row.
EventTotals(message, row) ==
    /\ message.event = "score_update" =>
          /\ message.data.score.team1_score.total = Derived1(row)
          /\ message.data.score.team2_score.total = Derived2(row)
    /\ message.event = "match_end" => ResultTotals(message.data.result, row)

\* C14: after any sequence of kabaddi actions, the total reported for each
\* team in every scoring response, score_update event, match-detail view and
\* completion result is raid_points + tackle_points + 2 * all_outs +
\* bonus_points of that team's persisted component counters at that moment:
\* the moment of the commit for a response, an event and a result, the moment
\* of the read for the view.
C14_DerivedTotals ==
    /\ [][commits' = commits + 1 =>
            LET row == db'[1]
                begun == tasks' \ tasks
            IN  /\ \A t \in begun : /\ ResponseTotals(t.response, row)
                                    /\ EventTotals(t.message, row)
                /\ begun = {} => ResponseTotals(resp', row)]_vars
    /\ [][(resp' # resp /\ resp'.op = "details" /\ resp'.code = 200) =>
            /\ resp'.body.team1_score.total = Derived1(db'[1])
            /\ resp'.body.team2_score.total = Derived2(db'[1])]_vars

\* A spectator received a score_update that counts an all-out of team 1 as
\* two points, the match was completed on that lead, and the match-detail
\* view has just been read.
C14_Witness ==
    /\ db[1].status = "COMPLETED"
    /\ db[1].team1_all_outs = 1
    /\ db[1].result = [winner |-> 1, how |-> "points", a |-> 2, b |-> 0]
    /\ resp.op = "details"
    /\ resp.body.team1_score.total = 2
    /\ \E k \in 1..Len(inbox[1]) :
          /\ inbox[1][k].event = "score_update"
          /\ inbox[1][k].data.score.team1_score.total = 2
    /\ \E k \in 1..Len(inbox[1]) :
          /\ inbox[1][k].event = "match_end"
          /\ inbox[1][k].data.result = db[1].result

-----------------------------------------------------------------------------
(* SpecRules: the scoring actions of one kabaddi match, for every action   *)
(* and for teams that do and do not play in it, before, while and after    *)
(* the match is LIVE, with one spectator.  At most MaxCommitsRules         *)
(* commits.                                                                *)

InitRules == InitWith({"kabaddi"}, {0})

RulesBound == commits < MaxCommitsRules

RulesStart == RulesBound /\ start_match(1, TRUE)

RulesScore ==
    RulesBound /\ \E k \in KabaddiInputs : update_kabaddi_score(1, k[1], k[2], k[3], TRUE)

RulesEndMatch == RulesBound /\ end_match(1, TRUE)

RulesConnect == \E w \in KabaddiSockets : connect(w, 1)

RulesDisconnect == \E w \in KabaddiSockets : disconnect(w)

RulesSend == \E task \in tasks : SendCompletes(task)

NextRules ==
    \/ RulesStart
    \/ RulesScore
    \/ RulesEndMatch
    \/ RulesConnect
    \/ RulesDisconnect
    \/ RulesSend

SpecRules == InitRules /\ [][NextRules]_vars

\* The eight component counters of a row.
Counters(match) ==
    <<match.team1_raid_points, match.team1_tackle_points,
      match.team1_all_outs, match.team1_bonus_points,
      match.team2_raid_points, match.team2_tackle_points,
      match.team2_all_outs, match.team2_bonus_points>>

\* The counter an action of the spec changes (1..4 are team 1's raid,
\* tackle, all-out and bonus counters, 5..8 team 2's) and by how much.
CounterOf(acting_team1, action) ==
    LET kind == IF action \in {"raid", "self_out"} THEN 1
                ELSE IF action \in {"tackle", "super_tackle"} THEN 2
                ELSE IF action = "all_out" THEN 3 ELSE 4
        credited_team1 == IF action = "self_out" THEN ~acting_team1 ELSE acting_team1
    IN  IF credited_team1 THEN kind ELSE 4 + kind

DeltaOf(action, points) ==
    IF action = "raid" THEN points ELSE IF action = "super_tackle" THEN 2 ELSE 1

\* C15: each accepted kabaddi action changes exactly one of the eight
\* component counters and leaves the other seven unchanged: raid adds the given
\* points to the acting team's raid points, tackle adds 1 and super_tackle adds
\* 2 to the acting team's tackle points, bonus adds 1 to the acting team's bonus
\* points, self_out adds 1 to the opposing team's raid points, all_out adds 1
\* to the acting team's all-out count.
C15_OneCounterPerAction ==
    [][\A k \in KabaddiInputs :
          (/\ k[1] \in {db[1].team1_id, db[1].team2_id}
           /\ db[1].status = "LIVE"
           /\ update_kabaddi_score(1, k[1], k[2], k[3], TRUE)) =>
             /\ commits' = commits + 1
             /\ Counters(db'[1]) =
                   [i \in 1..8 |->
                       Counters(db[1])[i]
                         + (IF i = CounterOf(k[1] = db[1].team1_id, k[2])
                            THEN DeltaOf(k[2], k[3]) ELSE 0)]
      ]_vars

\* A spectator has just been told of a self_out of team 1 that gave team 2
\* its first raid point, after a two-point raid of team 1.
C15_Witness ==
    /\ Counters(db[1]) = <<2, 0, 0, 0, 1, 0, 0, 0>>
    /\ inbox[1] # <<>>
    /\ inbox[1][Len(inbox[1])].event = "score_update"
    /\ inbox[1][Len(inbox[1])].data.action = "self_out"
    /\ inbox[1][Len(inbox[1])].data.scoring_team = 1
    /\ inbox[1][Len(inbox[1])].commit = commits

\* C16: a kabaddi action whose team is not one of the match's two teams fails
\* (with InvalidTeam whenever the match is LIVE, so that the team is looked
\* at), changes no counter of either team and broadcasts no event.
C16_InvalidTeamRejected ==
    [][\A k \in KabaddiInputs :
          (/\ k[1] \notin {db[1].team1_id, db[1].team2_id}
           /\ update_kabaddi_score(1, k[1], k[2], k[3], TRUE)) =>
             /\ resp'.op = "kabaddi_score"
             /\ resp'.code = 400
             /\ db[1].status = "LIVE" => resp'.detail = "Invalid team ID"
             /\ db' = db
             /\ commits' = commits
             /\ tasks' = tasks
             /\ sendq' = sendq
             /\ inbox' = inbox
      ]_vars

\* An action of a team that does not play has just been refused on a LIVE
\* match that has points on the board and a spectator listening.
C16_Witness ==
    /\ resp.op = "kabaddi_score"
    /\ resp.detail = "Invalid team ID"
    /\ db[1].status = "LIVE"
    /\ Derived1(db[1]) + Derived2(db[1]) > 0
    /\ ws[1].state = "open"

-----------------------------------------------------------------------------
(* SpecVolleyball: one volleyball match in match mode under every          *)
(* volleyball action in any order, with one spectator.  The store holds    *)
(* either a match just created or a LIVE match at 25-20 in its first set.  *)
(* At most MaxCommitsVolleyball commits.                                   *)

VolleyballSockets == {1}
\* (team_id, action), also for a team that does not play where the action
\* reads team_id; undo and toggle_serve do not read it.
VolleyballInputs ==
    ({1, 2} \X VolleyballActions) \cup {<<3, "point">>, <<3, "set_won">>}

\* A LIVE match after twenty points of team 2 followed by twenty-five of team 1.
SetPointMatch ==
    [NewMatch("volleyball", 1, 2, 0) EXCEPT
        !.status = "LIVE",
        !.team1_current_points = 25,
        !.team2_current_points = 20,
        !.point_history = [k \in 1..45 |->
                              [team |-> IF k <= 20 THEN 2 ELSE 1, action |-> "point"]]]

InitVolleyball ==
    /\ db \in {[m \in {1} |-> NewMatch("volleyball", 1, 2, 0)],
                [m \in {1} |-> SetPointMatch]}
    /\ teams = [t \in {1, 2} |-> NewTeam("volleyball")]
    /\ commits = 0
    /\ active_connections = [m \in {} |-> <<>>]
    /\ ws = [w \in Sockets |-> [state |-> "new", match_id |-> 0]]
    /\ tasks = {}
    /\ sendq = [w \in Sockets |-> <<>>]
    /\ inbox = [w \in Sockets |-> <<>>]
    /\ resp = NoResponse

VolleyballBound == commits < MaxCommitsVolleyball

VolleyballStart == VolleyballBound /\ start_match(1, TRUE)

VolleyballScore ==
    VolleyballBound /\ \E v \in VolleyballInputs : update_volleyball_score(1, v[1], v[2], TRUE)

VolleyballEndMatch == VolleyballBound /\ end_match(1, TRUE)

VolleyballConnect == \E w \in VolleyballSockets : connect(w, 1)

VolleyballDisconnect == \E w \in VolleyballSockets : disconnect(w)

VolleyballSend == \E task \in tasks : SendCompletes(task)

NextVolleyball ==
    \/ VolleyballStart
    \/ VolleyballScore
    \/ VolleyballEndMatch
    \/ VolleyballConnect
    \/ VolleyballDisconnect
    \/ VolleyballSend

SpecVolleyball == InitVolleyball /\ [][NextVolleyball]_vars

\* The volleyball state of a row: both teams' current points, the point
\* history, sets won, per-set histories, current set and serving team.
VolleyballState(match) ==
    [team1_current_points |-> match.team1_current_points,
     team2_current_points |-> match.team2_current_points,
     point_history |-> match.point_history,
     team1_sets |-> match.team1_sets,
     team2_sets |-> match.team2_sets,
     team1_set_points |-> match.team1_set_points,
     team2_set_points |-> match.team2_set_points,
     current_set |-> match.current_set,
     serve_team_id |-> match.serve_team_id]

\* What a score_update event shows of the volleyball state.
Shown(message) ==
    [team1_current_points |-> message.data.team1_score.current_points,
     team2_current_points |-> message.data.team2_score.current_points,
     team1_sets |-> message.data.team1_score.sets,
     team2_sets |-> message.data.team2_score.sets,
     team1_set_points |-> message.data.team1_score.set_points,
     team2_set_points |-> message.data.team2_score.set_points,
     current_set |-> message.data.current_set,
     serve_team |-> message.data.serve_team]

\* Three score_update events a spectator received one after the other, of
\* three commits in a row, the second of a point and the third of an undo.
PointThenUndoSeen(w, k) ==
    /\ k + 2 <= Len(inbox[w])
    /\ \A j \in {k, k + 1, k + 2} : inbox[w][j].event = "score_update"
    /\ inbox[w][k + 1].commit = inbox[w][k].commit + 1
    /\ inbox[w][k + 2].commit = inbox[w][k].commit + 2
    /\ inbox[w][k + 1].data.action = "point"
    /\ inbox[w][k + 2].data.action = "undo"

\* The step is an accepted request: it commits and its handler answers 200,
\* at once or when its fan-out ends.
Accepted ==
    /\ commits' = commits + 1
    /\ \A t \in tasks' \ tasks : t.response.code = 200
    /\ tasks' \ tasks = {} => resp'.code = 200

\* C17: for any reachable LIVE volleyball state and either participating
\* team, applying point for that team and then immediately undo restores
\* exactly the pre-point state: both teams' current points, the point history,
\* sets won, per-set histories, current set and serving team.  Where a point
\* is scored, the undo of the state it leaves gives back the state it found;
\* and a spectator who sees a point and then its undo sees the score of
\* before the point again.
C17_PointThenUndo ==
    /\ [][\A t \in {db[1].team1_id, db[1].team2_id} :
            (/\ db[1].status = "LIVE"
             /\ update_volleyball_score(1, t, "point", TRUE)) =>
               /\ Accepted
               /\ VolleyballState(db'[1]) # VolleyballState(db[1])
               /\ \A u \in TeamIds :
                     VolleyballState(VolleyballApply(db'[1], u, "undo"))
                         = VolleyballState(db[1])]_vars
    /\ [](\A w \in Sockets : \A k \in 1..Len(inbox[w]) :
            PointThenUndoSeen(w, k) => Shown(inbox[w][k + 2]) = Shown(inbox[w][k]))

\* A spectator saw a point of team 2 scored on a history that ends with a
\* point of team 1 and then undone, and the store holds the history of before.
C17_Witness ==
    /\ PointThenUndoSeen(1, 1)
    /\ Shown(inbox[1][2]).team2_current_points = Shown(inbox[1][1]).team2_current_points + 1
    /\ inbox[1][3].commit = commits
    /\ db[1].point_history # <<>>
    /\ db[1].point_history[Len(db[1].point_history)].team = 1
    /\ db[1].team2_current_points = Shown(inbox[1][1]).team2_current_points

\* C18: undo applied to a volleyball match whose point history is empty
\* (including directly after set_won) succeeds without error and leaves both
\* teams' current points, sets, per-set histories, current set, serving team
\* and the point history unchanged, however many times it is repeated.  (It
\* succeeds where scoring is served at all, on a LIVE match; on any other
\* match it is refused and changes nothing either.)
C18_UndoOnEmptyHistory ==
    [][\A t \in TeamIds :
          (/\ db[1].point_history = <<>>
           /\ update_volleyball_score(1, t, "undo", TRUE)) =>
             /\ VolleyballState(db'[1]) = VolleyballState(db[1])
             /\ db[1].status = "LIVE" => Accepted
      ]_vars

\* A spectator saw a set_won and then two undos in a row, and the store
\* still holds the set as it was won, with an empty point history.
C18_Witness ==
    /\ Len(inbox[1]) = 3
    /\ \A k \in 1..3 : inbox[1][k].event = "score_update"
    /\ inbox[1][1].data.action = "set_won"
    /\ inbox[1][2].data.action = "undo"
    /\ inbox[1][3].data.action = "undo"
    /\ inbox[1][3].commit = commits
    /\ Shown(inbox[1][3]) = Shown(inbox[1][1])
    /\ db[1].point_history = <<>>
    /\ db[1].team1_set_points = <<25>>
    /\ db[1].current_set = 2

\* C19: set_won, invoked for either team from any LIVE volleyball state, sets
\* both teams' current points to 0, appends exactly one entry to each team's
\* per-set history, and empties the point history.
C19_SetWonResets ==
    [][\A t \in {db[1].team1_id, db[1].team2_id} :
          (/\ db[1].status = "LIVE"
           /\ update_volleyball_score(1, t, "set_won", TRUE)) =>
             /\ Accepted
             /\ db'[1].team1_current_points = 0
             /\ db'[1].team2_current_points = 0
             /\ Len(db'[1].team1_set_points) = Len(db[1].team1_set_points) + 1
             /\ Len(db'[1].team2_set_points) = Len(db[1].team2_set_points) + 1
             /\ SubSeq(db'[1].team1_set_points, 1, Len(db[1].team1_set_points))
                   = db[1].team1_set_points
             /\ SubSeq(db'[1].team2_set_points, 1, Len(db[1].team2_set_points))
                   = db[1].team2_set_points
             /\ db'[1].point_history = <<>>
      ]_vars

\* From 26-20, the set was given to team 2, the team that was behind: both
\* teams are back at 0 with one entry each and an empty point history.
C19_Witness ==
    /\ db[1].team2_sets = 1
    /\ db[1].team1_sets = 0
    /\ db[1].team1_current_points = 0
    /\ db[1].team2_current_points = 0
    /\ db[1].team1_set_points = <<26>>
    /\ db[1].team2_set_points = <<20>>
    /\ db[1].point_history = <<>>
    /\ inbox[1] # <<>>
    /\ inbox[1][Len(inbox[1])].event = "score_update"
    /\ inbox[1][Len(inbox[1])].data.action = "set_won"
    /\ inbox[1][Len(inbox[1])].commit = commits

\* C20: the entry set_won appends to each team's per-set history is that
\* team's current points immediately before the call; set_won increases the
\* acting team's sets-won by exactly 1, leaves the other team's sets-won
\* unchanged, and increases current_set by exactly 1 (from 25-20 in set 1,
\* set_won for team 1 gives team1.sets = 1, team1.set_points = [25],
\* team2.set_points = [20], current_set = 2).
C20_SetWonRecords ==
    [][\A t \in {db[1].team1_id, db[1].team2_id} :
          (/\ db[1].status = "LIVE"
           /\ update_volleyball_score(1, t, "set_won", TRUE)) =>
             /\ db'[1].team1_set_points
                   = Append(db[1].team1_set_points, db[1].team1_current_points)
             /\ db'[1].team2_set_points
                   = Append(db[1].team2_set_points, db[1].team2_current_points)
             /\ db'[1].team1_sets
                   = db[1].team1_sets + (IF t = db[1].team1_id THEN 1 ELSE 0)
             /\ db'[1].team2_sets
                   = db[1].team2_sets + (IF t = db[1].team2_id THEN 1 ELSE 0)
             /\ db'[1].current_set = db[1].current_set + 1
      ]_vars

\* The example: at 25-20 in set 1 the first request is set_won for team 1,
\* and it has just been answered.
C20_Witness ==
    /\ commits = 1
    /\ resp.op = "volleyball_score"
    /\ resp.code = 200
    /\ resp.body.team1_sets = 1
    /\ resp.body.team2_sets = 0
    /\ db[1].team1_sets = 1
    /\ db[1].team1_current_points = 0
    /\ db[1].team1_set_points = <<25>>
    /\ db[1].team2_set_points = <<20>>
    /\ db[1].current_set = 2

-----------------------------------------------------------------------------
(* Delivery failures (SpecHub) *)

\* The send_json that completes in this step of `task` raises: the peer of
\* its connection is gone.
SendFails(task) ==
    /\ SendCompletes(task)
    /\ ws[task.connection].state # "open"

\* C21: when sending an event to a subscriber fails, that subscriber is
\* removed from the match's registry, so that later publishes to the match no
\* longer attempt delivery to it.
C21_FailedSendUnsubscribes ==
    [][\A t \in tasks :
          SendFails(t) => t.connection \notin Registered(t.match_id)']_vars

-----------------------------------------------------------------------------
(* SpecFail: two spectators of one kabaddi match whose connections may     *)
(* break at any moment, before or after the endpoint notices, while the    *)
(* match is scored.  At most MaxCommitsFail commits.                       *)

FailSockets == {1, 2}

InitFail == InitWith({"kabaddi"}, {0})

FailBound == commits < MaxCommitsFail

FailStart ==
    /\ FailBound
    /\ db[1].status = "UPCOMING"
    /\ start_match(1, TRUE)

FailScore == FailBound /\ update_kabaddi_score(1, 1, "raid", 1, TRUE)

FailHalf == FailBound /\ switch_kabaddi_half(1, TRUE)

FailConnect == \E w \in FailSockets : connect(w, 1)

FailLost == \E w \in FailSockets : ConnectionLost(w)

FailDisconnect == \E w \in FailSockets : disconnect(w)

FailSend == \E task \in tasks : SendCompletes(task)

NextFail ==
    \/ FailStart
    \/ FailScore
    \/ FailHalf
    \/ FailConnect
    \/ FailLost
    \/ FailDisconnect
    \/ FailSend

SpecFail == InitFail /\ [][NextFail]_vars

\* The publish of task t ends in this step.
PublishEnds(t) == \A u \in tasks' : u.message.commit # t.message.commit

C23_CommitSurvivesFailedDelivery ==
    /\ [][\A t \in tasks :
            (/\ PublishEnds(t)
             /\ t.audience # {}
             /\ \A w \in t.audience : ~Received(w, t.message)') =>
                /\ resp' = t.response
                /\ resp'.code = 200
                /\ db' = db
                /\ teams' = teams
                /\ commits' = commits
         ]_vars
    /\ [](\A t \in tasks : t.message.commit = commits => db[t.match_id] = t.match)
    /\ [](resp.code = 200 /\ resp.op = "kabaddi_score" /\ resp.body.team1_total > 0
             => db[1].team1_raid_points > 0)

\* Both spectators received the event of the second commit, so both were
\* subscribed from then on; both connections then broke without the endpoint
\* noticing; the third commit, a raid, was answered 200 and is in the store,
\* and neither spectator received its event.
C23_Witness ==
    /\ commits = 3
    /\ tasks = {}
    /\ resp.op = "kabaddi_score"
    /\ resp.code = 200
    /\ resp.body.team1_total = db[1].team1_raid_points
    /\ db[1].team1_raid_points > 0
    /\ Registered(1) = {1, 2}
    /\ \A w \in {1, 2} :
          /\ ws[w].state = "lost"
          /\ Len(inbox[w]) = 1
          /\ inbox[w][1].commit = 2

-----------------------------------------------------------------------------
(* SpecSport: one match of any of the three sports receives the scoring    *)
(* commands of all three, with one spectator.  At most MaxCommitsSport     *)
(* commits.                                                                *)

SportSockets == {1}
SportDeliveries == {<<1, FALSE, "None">>, <<0, TRUE, "WD">>}
SportKabaddi == {<<1, "raid", 1>>, <<2, "all_out", 1>>}
SportVolleyball == {<<1, "point">>, <<2, "set_won">>}

InitSport == InitWith(Sports, {0})

SportBound == commits < MaxCommitsSport

SportStart ==
    /\ SportBound
    /\ db[1].status = "UPCOMING"
    /\ start_match(1, TRUE)

SportCricketScore ==
    SportBound /\ \E d \in SportDeliveries : update_cricket_score(1, d[1], d[2], d[3], TRUE)

SportEndInnings == SportBound /\ end_innings(1, TRUE)

SportKabaddiScore ==
    SportBound /\ \E k \in SportKabaddi : update_kabaddi_score(1, k[1], k[2], k[3], TRUE)

SportSwitchHalf == SportBound /\ switch_kabaddi_half(1, TRUE)

SportVolleyballScore ==
    SportBound /\ \E v \in SportVolleyball : update_volleyball_score(1, v[1], v[2], TRUE)

SportConnect == \E w \in SportSockets : connect(w, 1)

SportSend == \E task \in tasks : SendCompletes(task)

NextSport ==
    \/ SportStart
    \/ SportCricketScore
    \/ SportEndInnings
    \/ SportKabaddiScore
    \/ SportSwitchHalf
    \/ SportVolleyballScore
    \/ SportConnect
    \/ SportSend

SpecSport == InitSport /\ [][NextSport]_vars

\* The step is a request refused as WrongSport by an endpoint of `sport`:
\* nothing is written and nothing is sent.
WrongSport(op, sport) ==
    /\ resp'.op = op
    /\ resp'.code = 400
    /\ resp'.detail = IF sport = "cricket"
                      THEN "This endpoint is for cricket matches only"
                      ELSE IF sport = "kabaddi"
                      THEN "This endpoint is for kabaddi matches only"
                      ELSE "This endpoint is for volleyball matches only"
    /\ UNCHANGED <<db, teams, commits, hubVars>>

\* C24: a sport-specific command (cricket delivery or end_innings, kabaddi
\* action or switch_half, volleyball action) issued against a match of a
\* different sport fails with WrongSport, leaves every field of the match
\* unchanged and broadcasts no event, whatever the status of the match.
C24_WrongSportRejected ==
    [][/\ \A d \in SportDeliveries :
            (db[1].sport # "cricket" /\ update_cricket_score(1, d[1], d[2], d[3], TRUE))
                => WrongSport("score", "cricket")
       /\ (db[1].sport # "cricket" /\ end_innings(1, TRUE))
                => WrongSport("end_innings", "cricket")
       /\ \A k \in SportKabaddi :
            (db[1].sport # "kabaddi" /\ update_kabaddi_score(1, k[1], k[2], k[3], TRUE))
                => WrongSport("kabaddi_score", "kabaddi")
       /\ (db[1].sport # "kabaddi" /\ switch_kabaddi_half(1, TRUE))
                => WrongSport("kabaddi_half", "kabaddi")
       /\ \A v \in SportVolleyball :
            (db[1].sport # "volleyball" /\ update_volleyball_score(1, v[1], v[2], TRUE))
                => WrongSport("volleyball_score", "volleyball")
      ]_vars

\* A LIVE volleyball match whose spectator has seen one point has just been
\* sent the kabaddi half switch: refused, the point still stands and the
\* spectator has seen nothing more.
C24_Witness ==
    /\ db[1].sport = "volleyball"
    /\ db[1].status = "LIVE"
    /\ db[1].current_half = 1
    /\ db[1].team1_current_points = 1
    /\ resp.op = "kabaddi_half"
    /\ resp.code = 400
    /\ resp.detail = "This endpoint is for kabaddi matches only"
    /\ tasks = {}
    /\ Len(inbox[1]) = 1
    /\ inbox[1][1].commit = commits

-----------------------------------------------------------------------------
(* SpecTwo: two kabaddi matches, 1 between teams 1 and 2 and 2 between     *)
(* teams 2 and 3, are run side by side; each of two spectators subscribes  *)
(* to either of them.  At most MaxCommitsTwo commits.                      *)

TwoMatches == {1, 2}
TwoSockets == {1, 2}

InitTwo ==
    /\ db = [m \in TwoMatches |-> NewMatch("kabaddi", m, m + 1, 0)]
    /\ teams = [t \in TeamIds |-> NewTeam("kabaddi")]
    /\ commits = 0
    /\ active_connections = [m \in {} |-> <<>>]
    /\ ws = [w \in Sockets |-> [state |-> "new", match_id |-> 0]]
    /\ tasks = {}
    /\ sendq = [w \in Sockets |-> <<>>]
    /\ inbox = [w \in Sockets |-> <<>>]
    /\ resp = NoResponse

TwoBound == commits < MaxCommitsTwo

TwoStart ==
    \E m \in TwoMatches :
        /\ TwoBound
        /\ db[m].status = "UPCOMING"
        /\ start_match(m, TRUE)

TwoScore == \E m \in TwoMatches : TwoBound /\ update_kabaddi_score(m, 2, "raid", 1, TRUE)

TwoHalf == \E m \in TwoMatches : TwoBound /\ switch_kabaddi_half(m, TRUE)

TwoEndMatch == \E m \in TwoMatches : TwoBound /\ end_match(m, TRUE)

TwoConnect == \E w \in TwoSockets, m \in TwoMatches : connect(w, m)

TwoDisconnect == \E w \in TwoSockets : disconnect(w)

TwoSend == \E task \in tasks : SendCompletes(task)

NextTwo ==
    \/ TwoStart
    \/ TwoScore
    \/ TwoHalf
    \/ TwoEndMatch
    \/ TwoConnect
    \/ TwoDisconnect
    \/ TwoSend

SpecTwo == InitTwo /\ [][NextTwo]_vars

\* The registry entries of the matches other than m are left as they are.
OtherEntriesKept(m) ==
    /\ DOMAIN active_connections' \ {m} = DOMAIN active_connections \ {m}
    /\ \A k \in DOMAIN active_connections \ {m} :
          active_connections'[k] = active_connections[k]

\* C25: after any interleaving of subscribe and unsubscribe operations, the
\* registry holds an entry for a match only if that match has at least one
\* registered subscriber: subscribe creates the entry when it is the first
\* subscriber, unsubscribe removes exactly that subscriber and deletes the
\* entry when it was the last, and the match record itself is untouched.
C25_RegistryEntriesNonEmpty ==
    /\ [](\A m \in DOMAIN active_connections : active_connections[m] # <<>>)
    /\ [][\A w \in TwoSockets :
            (ws[w].state = "new" /\ ws'[w].state = "open") =>
               LET m == ws'[w].match_id
               IN  /\ m \in DOMAIN active_connections'
                   /\ active_connections'[m] =
                         IF m \in DOMAIN active_connections
                         THEN Append(active_connections[m], w)
                         ELSE <<w>>
                   /\ OtherEntriesKept(m)
                   /\ db' = db
         ]_vars
    /\ [][\A w \in TwoSockets :
            (ws[w].state = "open" /\ ws'[w].state = "closed") =>
               LET m == ws[w].match_id
               IN  /\ Registered(m)' = Registered(m) \ {w}
                   /\ (m \in DOMAIN active_connections') = (Registered(m) # {w})
                   /\ OtherEntriesKept(m)
                   /\ db' = db
         ]_vars

\* Socket 1 was the only subscriber of match 1 and has unsubscribed, so the
\* entry of match 1 is gone; the entry of match 2 still holds socket 2; both
\* match records exist and match 1 has been scored meanwhile.
C25_Witness ==
    /\ ws[1] = [state |-> "closed", match_id |-> 1]
    /\ ws[2] = [state |-> "open", match_id |-> 2]
    /\ DOMAIN active_connections = {2}
    /\ active_connections[2] = <<2>>
    /\ DOMAIN db = {1, 2}
    /\ inbox[1] # <<>>
    /\ db[1].current_half = 2

\* The sockets whose path names match m.
SubscribersOf(m) == {w \in Sockets : ws[w].state # "new" /\ ws[w].match_id = m}

\* The step leaves match o alone: its row, and what its subscribers were
\* sent and have received.
Untouched(o) ==
    /\ db'[o] = db[o]
    /\ \A w \in SubscribersOf(o) : inbox'[w] = inbox[w] /\ sendq'[w] = sendq[w]

\* C26: a mutation or publish for one match never changes the persisted
\* scoring state or status of any other match and never delivers an event to
\* a subscriber registered only for another match, under any interleaving of
\* operations on the two matches.
C26_MatchesIndependent ==
    /\ [][\A m \in TwoMatches :
            (\/ start_match(m, TRUE)
             \/ update_kabaddi_score(m, 2, "raid", 1, TRUE)
             \/ switch_kabaddi_half(m, TRUE)
             \/ end_match(m, TRUE)
             \/ \E t \in tasks : t.match_id = m /\ SendCompletes(t))
                => \A o \in TwoMatches \ {m} : Untouched(o)
         ]_vars
    /\ [](\A w \in Sockets : \A k \in 1..Len(inbox[w]) :
             inbox[w][k].match_id = ws[w].match_id)
    /\ [](\A t \in tasks : ws[t.connection].match_id = t.match_id)

\* The publish of the completion of match 2 is still under way to socket 2
\* while a later commit of match 1, its half switch, has been made and
\* delivered to socket 1: each match holds its own change only, and socket 1
\* has seen the event of match 1 only.
C26_Witness ==
    /\ ws[1] = [state |-> "open", match_id |-> 1]
    /\ ws[2] = [state |-> "open", match_id |-> 2]
    /\ \E t \in tasks :
          /\ t.match_id = 2
          /\ t.connection = 2
          /\ t.message.commit = 1
          /\ t.message.event = "match_end"
    /\ Len(inbox[1]) = 1
    /\ inbox[1][1].match_id = 1
    /\ inbox[1][1].event = "half_change"
    /\ inbox[1][1].commit = 2
    /\ inbox[2] = <<>>
    /\ db[1].current_half = 2
    /\ db[1].status = "UPCOMING"
    /\ db[2].current_half = 1
    /\ db[2].status = "COMPLETED"

-----------------------------------------------------------------------------
(* Ball index (SpecCricket) *)

\* C27: the ball index stored in each cricket delivery record equals
\* 6 * (completed overs) + (legal balls already bowled in the current over)
\* + 1, taken from the innings' legal-ball counter before the delivery, for
\* every reachable overs value and independently of how many wides or
\* no-balls are in the log.
C27_BallIndexFromLegalBalls ==
    [][Len(db'[1].ball_history) = Len(db[1].ball_history) + 1 =>
          db'[1].ball_history[Len(db'[1].ball_history)].ball
              = LegalBalls(CurrentOvers(db[1])) + 1
      ]_vars

-----------------------------------------------------------------------------
(* Volleyball undo and team identity (SpecVolleyball) *)

\* C28: volleyball undo removes the most recent point-history entry and
\* decrements (not below 0) the current points of exactly the team recorded
\* in that entry, leaving the other team's current points unchanged,
\* whichever team_id the undo request names.
C28_UndoFollowsHistory ==
    [][\A t \in TeamIds :
          (/\ db[1].status = "LIVE"
           /\ db[1].point_history # <<>>
           /\ update_volleyball_score(1, t, "undo", TRUE)) =>
             LET history == db[1].point_history
                 last == history[Len(history)]
             IN  /\ Accepted
                 /\ db'[1].point_history = SubSeq(history, 1, Len(history) - 1)
                 /\ db'[1].team1_current_points =
                       IF last.team = 1 THEN Max0(db[1].team1_current_points - 1)
                       ELSE db[1].team1_current_points
                 /\ db'[1].team2_current_points =
                       IF last.team = 2 THEN Max0(db[1].team2_current_points - 1)
                       ELSE db[1].team2_current_points
      ]_vars

\* At 25-20, with a point of team 1 as the latest entry, an undo that names
\* team 2 has been committed: 24-20, the entry is gone.
C28_Witness ==
    \E t \in tasks :
        /\ t.request.op = "volleyball_score"
        /\ t.request.update = <<2, "undo">>
        /\ t.message.commit = commits
        /\ db[1] = t.match
        /\ db[1].team1_current_points = 24
        /\ db[1].team2_current_points = 20
        /\ Len(db[1].point_history) = 44

\* C29: a volleyball point or set_won action whose team_id is not one of the
\* match's two teams does not change the current points or sets-won of
\* either participating team.
C29_ForeignTeamChangesNothing ==
    [][\A t \in TeamIds \ {db[1].team1_id, db[1].team2_id} :
          \A action \in {"point", "set_won"} :
             update_volleyball_score(1, t, action, TRUE) =>
                /\ db'[1].team1_current_points = db[1].team1_current_points
                /\ db'[1].team2_current_points = db[1].team2_current_points
                /\ db'[1].team1_sets = db[1].team1_sets
                /\ db'[1].team2_sets = db[1].team2_sets
      ]_vars

\* The number of point-history entries recorded for a side (1 or 2).
EntriesOf(match, side) ==
    Cardinality({k \in 1..Len(match.point_history) : match.point_history[k].team = side})

\* C30: in every reachable state of a volleyball match, for each of the two
\* teams the number of point-history entries recorded for that team equals
\* that team's current-set points (so the history length equals the sum of
\* both teams' current points), after any sequence of point, undo,
\* toggle_serve and set_won.
C30_HistoryMatchesPoints ==
    /\ EntriesOf(db[1], 1) = db[1].team1_current_points
    /\ EntriesOf(db[1], 2) = db[1].team2_current_points
    /\ Len(db[1].point_history) = db[1].team1_current_points + db[1].team2_current_points

\* A set has been won, and in the next set a point requested for team 3, who
\* does not play, has been credited to team 2 and recorded for team 2.
C30_Witness ==
    \E t \in tasks :
        /\ t.request.update = <<3, "point">>
        /\ t.message.commit = commits
        /\ db[1] = t.match
        /\ db[1].current_set = 2
        /\ db[1].team1_set_points = <<25>>
        /\ db[1].team1_current_points = 0
        /\ db[1].team2_current_points = 1
        /\ db[1].point_history = <<[team |-> 2, action |-> "point"]>>

-----------------------------------------------------------------------------
(* Match completion (SpecLife, SpecInnings) *)

\* C31: complete applied to a LIVE match succeeds and leaves the persisted
\* status COMPLETED for every sport and every reachable scoring payload,
\* including a cricket match whose first innings was never ended (target
\* unset).
C31_CompleteSucceedsWhenLive ==
    [][(db[1].status = "LIVE" /\ end_match(1, TRUE)) =>
          /\ db'[1].status = "COMPLETED"
          /\ commits' = commits + 1
      ]_vars

\* The career stats of a team row.
CareerStats(row) ==
    <<row.wins, row.losses, row.matches_played, row.points, row.total_runs_scored,
      row.total_raid_points, row.total_tackle_points, row.total_sets_won>>

\* C32: each match contributes to its teams' career stats (wins, losses,
\* matches_played, points, total runs / raid and tackle points / sets won) at
\* most once: invoking complete again on a match already COMPLETED changes no
\* team stat.
C32_StatsCountedOnce ==
    [][(db[1].status = "COMPLETED" /\ end_match(1, TRUE)) =>
          \A t \in DOMAIN teams : CareerStats(teams'[t]) = CareerStats(teams[t])
      ]_vars

\* The team credited with the win in this step: its wins grew by 1 and its
\* points by 2, and the result names it.
Credited(t) ==
    /\ teams'[t].wins = teams[t].wins + 1
    /\ teams'[t].points = teams[t].points + 2
    /\ db'[1].result.winner = t

\* C33: when a cricket match is completed, the team credited with the win
\* (wins + 1, points + 2, named in the result) is the team that batted second
\* if second-innings runs >= target and otherwise the team that batted first,
\* for every toss outcome (either team batting first).  In the second
\* innings the batting team is the one that bats second.
C33_CricketWinnerByBattingOrder ==
    [][(/\ db[1].current_innings = 2
        /\ db[1].status = "LIVE"
        /\ end_match(1, TRUE)) =>
           IF db[1].innings2_runs >= db[1].target
           THEN Credited(db[1].batting_team_id)
           ELSE Credited(db[1].bowling_team_id)
      ]_vars

-----------------------------------------------------------------------------
(* Sides and serve (SpecLife) *)

Participants(match) == {match.team1_id, match.team2_id}

\* C34: in every reachable state of a cricket match the batting team and the
\* bowling team are the match's two distinct participants, and a successful
\* end_innings exchanges them (the team that bowled in innings 1 bats in
\* innings 2).
C34_BattingAndBowlingSides ==
    /\ [](db[1].sport = "cricket" =>
            /\ db[1].batting_team_id \in Participants(db[1])
            /\ db[1].bowling_team_id \in Participants(db[1])
            /\ db[1].batting_team_id # db[1].bowling_team_id)
    /\ [][(/\ db[1].sport = "cricket"
           /\ db[1].current_innings = 1
           /\ end_innings(1, TRUE)) =>
              /\ commits' = commits + 1
              /\ db'[1].current_innings = 2
              /\ db'[1].batting_team_id = db[1].bowling_team_id
              /\ db'[1].bowling_team_id = db[1].batting_team_id
         ]_vars

\* Team 2 won the toss and chose to bowl, and the innings has been ended:
\* team 2, who bowled in innings 1, bats in innings 2.
C34_Witness ==
    /\ db[1].sport = "cricket"
    /\ db[1].toss_winner_id = 2
    /\ db[1].toss_choice = "bowl"
    /\ db[1].current_innings = 2
    /\ db[1].batting_team_id = 2
    /\ db[1].bowling_team_id = 1
    /\ resp.op = "end_innings"
    /\ resp.code = 200

\* C35: switch_half sets current_half to 2 and changes no scoring counter;
\* applying it again when current_half is already 2 succeeds and leaves the
\* match state identical, and current_half never returns to 1.
C35_SwitchHalfOnceAndForAll ==
    /\ [][(db[1].sport = "kabaddi" /\ switch_kabaddi_half(1, TRUE)) =>
             /\ Accepted
             /\ db'[1] = [db[1] EXCEPT !.current_half = 2]
             /\ Counters(db'[1]) = Counters(db[1])
             /\ teams' = teams
         ]_vars
    /\ [][db[1].current_half = 2 => db'[1].current_half = 2]_vars
    /\ [](db[1].current_half \in {1, 2})

\* The spectator has seen the half switched twice in a row, both requests
\* were answered 200, and the store holds the second half.
C35_Witness ==
    /\ Len(inbox[1]) = 2
    /\ inbox[1][1].event = "half_change"
    /\ inbox[1][2].event = "half_change"
    /\ inbox[1][1].commit + 1 = inbox[1][2].commit
    /\ inbox[1][2].commit = commits
    /\ tasks = {}
    /\ resp.op = "kabaddi_half"
    /\ resp.code = 200
    /\ db[1].current_half = 2

\* C36: in every reachable state of a volleyball match the serving team is
\* one of the two participants; toggle_serve changes it to the other
\* participant and changes nothing else, so two consecutive toggle_serve
\* actions restore the original state.
C36_ServeTogglesBetweenParticipants ==
    /\ [](db[1].sport = "volleyball" => db[1].serve_team_id \in Participants(db[1]))
    /\ [][\A t \in TeamIds :
            (/\ db[1].sport = "volleyball"
             /\ db[1].status = "LIVE"
             /\ update_volleyball_score(1, t, "toggle_serve", TRUE)) =>
                /\ Accepted
                /\ db'[1].serve_team_id \in Participants(db[1]) \ {db[1].serve_team_id}
                /\ [db'[1] EXCEPT !.serve_team_id = db[1].serve_team_id] = db[1]
                /\ teams' = teams
                /\ \A u \in TeamIds : VolleyballApply(db'[1], u, "toggle_serve") = db[1]
         ]_vars

\* The spectator has seen the serve pass to team 2 and back to team 1 in two
\* consecutive commits, and the store holds the serve with team 1 again.
C36_Witness ==
    /\ db[1].sport = "volleyball"
    /\ Len(inbox[1]) = 2
    /\ \A k \in {1, 2} :
          /\ inbox[1][k].event = "score_update"
          /\ inbox[1][k].data.action = "toggle_serve"
    /\ inbox[1][1].commit + 1 = inbox[1][2].commit
    /\ inbox[1][2].commit = commits
    /\ inbox[1][1].data.serve_team = 2
    /\ inbox[1][2].data.serve_team = 1
    /\ [Shown(inbox[1][1]) EXCEPT !.serve_team = 1] = Shown(inbox[1][2])
    /\ db[1].serve_team_id = 1
    /\ db[1].status = "LIVE"

====
